---- MODULE Spec2Model ----
(***************************************************************************)
(* A model of hex-conservative: the symbol table, the hex-pair decoder,    *)
(* the HexToBytesIter decoding iterator, the parse facade (decode_to_vec,  *)
(* decode_to_array, FromHex) and the buffered encoder BufEncoder.          *)
(*                                                                         *)
(* Text is a sequence of bytes (the UTF-8 encoding of a str), a byte is a  *)
(* number in 0..255.  Sequences are 1-based, positions reported by the     *)
(* program are 0-based: the byte at position p of s is s[p + 1].           *)
(***************************************************************************)
EXTENDS Integers, Sequences, FiniteSets, TLC

\* ------------------------------------------------------------------ bounds

\* The decoding iterator runs over strings of at most MaxPairs pairs.
MaxPairs == 3

\* nth / nth_back are called with n in 0..MaxSkip.
MaxSkip == 2

\* The byte sequences encoded hold at most MaxBytes bytes.
MaxBytes == 3

\* The texts handed to the parse facade hold at most MaxStrLen bytes.
MaxStrLen == 5

\* decode_to_array::<N> is called with N in 0..MaxN.
MaxN == 3

\* A BufEncoder<CAP> has CAP = 2 * k for a k in 0..MaxHalfCap.
MaxHalfCap == 3

\* put_bytes and put_bytes_min are given at most MaxPut bytes.
MaxPut == 2

\* put_filler is called with max_count in 0..MaxFill.
MaxFill == 2

\* The display adapter formats at most MaxFmtBytes bytes, under a width of
\* at most MaxWidth and a precision of at most MaxPrecision.
MaxFmtBytes == 2
MaxWidth == 7
MaxPrecision == 5

\* The inner writer of a HexWriter is an ArrayString of up to MaxHwCap bytes
\* or a String; a buf of up to MaxHwBuf bytes is written, MaxHwCalls times.
MaxHwCap == 5
MaxHwBuf == 3
MaxHwCalls == 2

\* A BytesToHexIter goes over up to MaxEncBytes bytes.
MaxEncBytes == 3

\* A call gone through loop by loop makes at most MaxSteps loop iterations.
MaxSteps == 12

\* ----------------------------------------------------------------- helpers

Byte == 0..255

Min(a, b) == IF a < b THEN a ELSE b

\* The characters the inputs are drawn from, each as its UTF-8 bytes:
\* the hex digits 7 and b, and G, which is none.
IterChars == { <<55>>, <<98>>, <<71>> }

RECURSIVE StrsOfLen(_, _)
\* Every str of exactly n bytes made of the characters cs.
StrsOfLen(cs, n) ==
    IF n = 0 THEN { <<>> }
    ELSE UNION { { c \o t : t \in StrsOfLen(cs, n - Len(c)) } :
                 c \in { d \in cs : Len(d) <= n } }

RECURSIVE SeqsOfLen(_, _)
\* Every sequence of n elements of S.
SeqsOfLen(S, n) ==
    IF n = 0 THEN { <<>> }
    ELSE { Append(q, x) : q \in SeqsOfLen(S, n - 1), x \in S }

\* ------------------------------------------------------------ symbol table

\* char::to_digit(16) on a byte read as a char; NoDigit stands for None.
NoDigit == -1

to_digit(c) ==
    IF c >= 48 /\ c <= 57 THEN c - 48
    ELSE IF c >= 97 /\ c <= 102 THEN c - 87
    ELSE IF c >= 65 /\ c <= 70 THEN c - 55
    ELSE NoDigit

IsHex(c) == to_digit(c) # NoDigit

\* Table::LOWER and Table::UPPER.
LOWER == <<48, 49, 50, 51, 52, 53, 54, 55, 56, 57, 97, 98, 99, 100, 101, 102>>
UPPER == <<48, 49, 50, 51, 52, 53, 54, 55, 56, 57, 65, 66, 67, 68, 69, 70>>

Case == { "Lower", "Upper" }

\* A table lookup that exchanges the two cases.
table_Swapped(case) == IF case = "Lower" THEN UPPER ELSE LOWER

\* Case::table.
table(case) == IF case = "Lower" THEN LOWER ELSE UPPER

\* An encoder that writes the low nibble first.
byte_to_chars_LowFirst(t, byte) == << t[(byte % 16) + 1], t[(byte \div 16) + 1] >>

\* Table::byte_to_chars / byte_to_str: high nibble first.
byte_to_chars(t, byte) == << t[(byte \div 16) + 1], t[(byte % 16) + 1] >>

\* --------------------------------------------------------- hex pair decoder

PairOk(b) == [ok |-> TRUE, byte |-> b, c |-> 0, is_high |-> FALSE]
PairErr(c, h) == [ok |-> FALSE, byte |-> 0, c |-> c, is_high |-> h]

\* A decoder that looks at the low character first.
hex_chars_to_byte_LowFirst(hi, lo) ==
    IF to_digit(lo) = NoDigit THEN PairErr(lo, FALSE)
    ELSE IF to_digit(hi) = NoDigit THEN PairErr(hi, TRUE)
    ELSE PairOk(((to_digit(hi) * 16) + to_digit(lo)) % 256)

hex_chars_to_byte(hi, lo) ==
    IF to_digit(hi) = NoDigit THEN PairErr(hi, TRUE)
    ELSE IF to_digit(lo) = NoDigit THEN PairErr(lo, FALSE)
    ELSE PairOk(((to_digit(hi) * 16) + to_digit(lo)) % 256)

\* ------------------------------------------------------------------- state

VARIABLES
    \* hex_chars_to_byte applied to one pair of bytes
    hi, lo, pairRes, pairDone,
    \* HexToBytesIter over the str s: the ChunksExact slice is the pairs
    \* front .. back - 1 of s; item is what the last call returned when it
    \* was next, nth, next_back or nth_back
    s, front, back, original_len, item,
    \* what the last call returned when it was a bulk call (drain_to_vec,
    \* drain_to_slice, read), and whether the iterator was moved into it
    ret, moved,
    \* history: the pair the last call decoded (-1: none) and whether the
    \* last call met a pair that holds an invalid byte
    lastPair, sawInvalid

VARIABLES
    \* the parse facade: the text handed to a decoding entry point, the
    \* bytes and the case it was encoded from (when encoded), what the last
    \* entry point returned
    text, srcBytes, srcCase, encoded, out

VARIABLES
    \* a BufEncoder<CAP>: the ArrayString's content, CAP and the case of its
    \* table; whether the last call panicked, and what it returned (the
    \* length of put_bytes_min's remainder, put_filler's count)
    buf, cap, bcase, panicked, rv,
    \* history: the last call with the bytes it was asked to append and the
    \* length before it; the bytes put_filler appended since the last clear;
    \* the arguments of the last call and the slice put_bytes_min returned
    lastOp, fillerLen, lastArg

VARIABLES
    \* the display adapter: the last formatting call (the bytes, the case, the
    \* Formatter's options and the entry point) and what it wrote
    fcall, fout

VARIABLES
    \* one call of internal_display or of drain_to_vec gone through loop by
    \* loop: where the call stands; the content of its BufEncoder<1024> and
    \* of the encoder of the nested `write!(f, "{}", ..)`; the padding loop
    \* (the count asked for, put_filler's chunk_len, the iterations done);
    \* the pad_right write_pad_left returned; the bytes the chunk loop has
    \* not encoded yet; whether an assertion fired; the loop iterations made
    pc, encoder, inner_encoder, pad, right, chunks, fired, steps

pairVars == <<hi, lo, pairRes, pairDone>>
VARIABLES
    \* a HexWriter over an inner fmt::Write: the inner writer's capacity and
    \* content, the case of the table, the last buf written with the content
    \* before the call, what write returned, and the calls made
    hw_cap, hw_dest, hw_case, hw_buf, hw_before, hw_ret, hw_calls

VARIABLES
    \* InvalidDigitError::into_invalid_char_error: the error, the next item
    \* of the iterator, and the InvalidCharError returned
    digit_err, next_item, char_err

VARIABLES
    \* a BytesToHexIter over the bytes of a slice: the slice, the bytes left
    \* in the inner iterator (from, to), the field low with the index of the
    \* byte it is of, the case of the table, and the characters yielded so
    \* far, each with the end it was asked from and the byte it is of
    enc_bytes, enc_from, enc_to, low, low_of, enc_case, yielded

hwVars == <<hw_cap, hw_dest, hw_case, hw_buf, hw_before, hw_ret, hw_calls>>
errVars == <<digit_err, next_item, char_err>>
encVars == <<enc_bytes, enc_from, enc_to, low, low_of, enc_case, yielded>>
runVars == <<pc, encoder, inner_encoder, pad, right, chunks, fired, steps>>
fmtVars == <<fcall, fout>>
bufVars == <<buf, cap, bcase, panicked, rv, lastOp, fillerLen, lastArg>>
codecVars == <<text, srcBytes, srcCase, encoded, out>>
iterVars == <<s, front, back, original_len, item, ret, moved, lastPair, sawInvalid>>
vars == <<pairVars, iterVars, codecVars, bufVars, fmtVars, runVars, hwVars, errVars, encVars>>

\* ---------------------------------------------------------------- the pair

PairIdle == hi = 0 /\ lo = 0 /\ pairRes = PairOk(0) /\ pairDone = FALSE

PairInit == hi \in Byte /\ lo \in Byte /\ pairRes = PairOk(0) /\ pairDone = FALSE

\* One call of hex_chars_to_byte(hi, lo).
PairDecode ==
    /\ ~pairDone
    /\ pairRes' = hex_chars_to_byte(hi, lo)
    /\ pairDone' = TRUE
    /\ UNCHANGED <<hi, lo, iterVars, codecVars, bufVars, fmtVars, runVars, hwVars, errVars, encVars>>

\* ------------------------------------------------------------- the iterator

\* Option<Result<u8, InvalidCharError>>.
NoneItem == [tag |-> "None", byte |-> 0, invalid |-> 0, pos |-> 0]
OkItem(b) == [tag |-> "Ok", byte |-> b, invalid |-> 0, pos |-> 0]
ErrItem(c, p) == [tag |-> "Err", byte |-> 0, invalid |-> c, pos |-> p]

\* The position next and nth give an invalid character, from original_len
\* and the pairs left after the call (self.iter.len()).
front_pos(olen, remaining, is_high) ==
    IF is_high THEN (olen - remaining - 1) * 2
    ELSE (olen - remaining - 1) * 2 + 1

\* A back position with the two characters of the pair exchanged.
back_pos_Swapped(remaining, is_high) ==
    IF is_high THEN remaining * 2 + 1 ELSE remaining * 2

\* The position next_back and nth_back give an invalid character.
back_pos(remaining, is_high) ==
    IF is_high THEN remaining * 2 ELSE remaining * 2 + 1

\* The item next / nth build from pair k of str, with `remaining` pairs left.
front_item(str, olen, k, remaining) ==
    LET r == hex_chars_to_byte(str[2 * k + 1], str[2 * k + 2])
    IN  IF r.ok THEN OkItem(r.byte)
        ELSE ErrItem(r.c, front_pos(olen, remaining, r.is_high))

\* The item next_back / nth_back build from pair k of str.
back_item(str, k, remaining) ==
    LET r == hex_chars_to_byte(str[2 * k + 1], str[2 * k + 2])
    IN  IF r.ok THEN OkItem(r.byte)
        ELSE ErrItem(r.c, back_pos(remaining, r.is_high))

\* Whether pair k of str holds a byte that is no hex digit.
PairInvalid(str, k) == ~IsHex(str[2 * k + 1]) \/ ~IsHex(str[2 * k + 2])

\* What a bulk call returns: tag is Ok, Err (an InvalidCharError), Panic or,
\* before any call, None; bytes is the Vec returned or the bytes the call
\* wrote to the front of the destination slice; n is the count read
\* returns and, for the drains, the number of pairs decoded.
NoRet == [op |-> "none", tag |-> "None", bytes |-> <<>>, invalid |-> 0, pos |-> 0, n |-> 0]

\* HexToBytesIter::new on an even-length str (from_pairs sets original_len).
IterInit ==
    /\ s \in UNION { StrsOfLen(IterChars, 2 * k) : k \in 0..MaxPairs }
    /\ front = 0
    /\ back = Len(s) \div 2
    /\ original_len = Len(s) \div 2
    /\ item = NoneItem
    /\ ret = NoRet
    /\ moved = FALSE
    /\ lastPair = -1
    /\ sawInvalid = FALSE

IterIdle ==
    /\ s = <<>>
    /\ front = 0
    /\ back = 0
    /\ original_len = 0
    /\ item = NoneItem
    /\ ret = NoRet
    /\ moved = FALSE
    /\ lastPair = -1
    /\ sawInvalid = FALSE

\* ExactSizeIterator::len of the iterator over the pairs f .. b - 1.
iter_len(f, b) == b - f

\* Iterator::size_hint: (lower, Some(upper)) of the ChunksExact.
size_hint(f, b) == << iter_len(f, b), iter_len(f, b) >>

\* A next that yields the pair at the front and leaves it in the iterator.
IterNext_Stay ==
    /\ ~moved
    /\ item' = (IF front < back THEN front_item(s, original_len, front, back - (front + 1))
                ELSE NoneItem)
    /\ lastPair' = (IF front < back THEN front ELSE -1)
    /\ sawInvalid' = (front < back /\ PairInvalid(s, front))
    /\ ret' = NoRet
    /\ UNCHANGED <<s, front, back, original_len, moved, pairVars, codecVars, bufVars, fmtVars, runVars, hwVars, errVars, encVars>>

\* HexToBytesIter::next.
IterNext ==
    /\ ~moved
    /\ IF front < back
       THEN /\ front' = front + 1
            /\ item' = front_item(s, original_len, front, back - (front + 1))
            /\ lastPair' = front
       ELSE /\ front' = front
            /\ item' = NoneItem
            /\ lastPair' = -1
    /\ sawInvalid' = (front < back /\ PairInvalid(s, front))
    /\ ret' = NoRet
    /\ UNCHANGED <<s, back, original_len, moved, pairVars, codecVars, bufVars, fmtVars, runVars, hwVars, errVars, encVars>>

\* An nth(n) that skips n - 1 pairs when n > 0.
IterNth_OffByOne(n) ==
    LET m == IF n > 0 THEN n - 1 ELSE 0
    IN  /\ ~moved
        /\ IF m < back - front
           THEN /\ front' = front + m + 1
                /\ item' = front_item(s, original_len, front + m, back - (front + m + 1))
                /\ lastPair' = front + m
           ELSE /\ front' = back
                /\ item' = NoneItem
                /\ lastPair' = -1
        /\ sawInvalid' = (m < back - front /\ PairInvalid(s, front + m))
        /\ ret' = NoRet
        /\ UNCHANGED <<s, back, original_len, moved, pairVars, codecVars, bufVars, fmtVars, runVars, hwVars, errVars, encVars>>

\* HexToBytesIter::nth(n): ChunksExact::nth empties the slice when n is
\* past its end.
IterNth(n) ==
    /\ ~moved
    /\ IF n < back - front
       THEN /\ front' = front + n + 1
            /\ item' = front_item(s, original_len, front + n, back - (front + n + 1))
            /\ lastPair' = front + n
       ELSE /\ front' = back
            /\ item' = NoneItem
            /\ lastPair' = -1
    /\ sawInvalid' = (n < back - front /\ PairInvalid(s, front + n))
    /\ ret' = NoRet
    /\ UNCHANGED <<s, back, original_len, moved, pairVars, codecVars, bufVars, fmtVars, runVars, hwVars, errVars, encVars>>

\* HexToBytesIter::next_back.
IterNextBack ==
    /\ ~moved
    /\ IF front < back
       THEN /\ back' = back - 1
            /\ item' = back_item(s, back - 1, (back - 1) - front)
            /\ lastPair' = back - 1
       ELSE /\ back' = back
            /\ item' = NoneItem
            /\ lastPair' = -1
    /\ sawInvalid' = (front < back /\ PairInvalid(s, back - 1))
    /\ ret' = NoRet
    /\ UNCHANGED <<s, front, original_len, moved, pairVars, codecVars, bufVars, fmtVars, runVars, hwVars, errVars, encVars>>

\* HexToBytesIter::nth_back(n).
IterNthBack(n) ==
    /\ ~moved
    /\ IF n < back - front
       THEN /\ back' = back - 1 - n
            /\ item' = back_item(s, back - 1 - n, (back - 1 - n) - front)
            /\ lastPair' = back - 1 - n
       ELSE /\ back' = front
            /\ item' = NoneItem
            /\ lastPair' = -1
    /\ sawInvalid' = (n < back - front /\ PairInvalid(s, back - 1 - n))
    /\ ret' = NoRet
    /\ UNCHANGED <<s, front, original_len, moved, pairVars, codecVars, bufVars, fmtVars, runVars, hwVars, errVars, encVars>>

RECURSIVE drain(_, _, _, _, _)
\* The loop `for byte in self { write(ptr, byte?) }` of drain_to_vec and
\* drain_to_slice, from the pairs f .. b - 1: the bytes written, the first
\* error met (tag Err) and the pairs handed to the pair decoder.
drain(str, olen, f, b, acc) ==
    IF f = b
    THEN [tag |-> "Ok", bytes |-> acc, invalid |-> 0, pos |-> 0, examined |-> Len(acc)]
    ELSE LET it == front_item(str, olen, f, b - (f + 1))
         IN  IF it.tag = "Err"
             THEN [tag |-> "Err", bytes |-> acc, invalid |-> it.invalid,
                   pos |-> it.pos, examined |-> Len(acc) + 1]
             ELSE drain(str, olen, f + 1, b, Append(acc, it.byte))

\* A drain_to_vec that hands back the bytes decoded before the error.
drain_to_vec_Partial(str, olen, f, b) ==
    LET d == drain(str, olen, f, b, <<>>)
    IN  [op |-> "drain_to_vec", tag |-> d.tag, bytes |-> d.bytes,
         invalid |-> d.invalid, pos |-> d.pos, n |-> d.examined]

\* HexToBytesIter::drain_to_vec: the Vec is returned only on success.
drain_to_vec(str, olen, f, b) ==
    LET d == drain(str, olen, f, b, <<>>)
    IN  [op |-> "drain_to_vec", tag |-> d.tag,
         bytes |-> IF d.tag = "Ok" THEN d.bytes ELSE <<>>,
         invalid |-> d.invalid, pos |-> d.pos, n |-> d.examined]

\* HexToBytesIter::drain_to_slice into a slice of buflen bytes: assert_eq!
\* panics before anything is written when the lengths differ.
drain_to_slice(str, olen, f, b, buflen) ==
    IF b - f # buflen
    THEN [op |-> "drain_to_slice", tag |-> "Panic", bytes |-> <<>>,
          invalid |-> 0, pos |-> 0, n |-> 0]
    ELSE LET d == drain(str, olen, f, b, <<>>)
         IN  [op |-> "drain_to_slice", tag |-> d.tag, bytes |-> d.bytes,
              invalid |-> d.invalid, pos |-> d.pos, n |-> d.examined]

RECURSIVE read_loop(_, _, _, _, _, _)
\* The loop of io::Read::read over the destination's `room` free bytes:
\* the bytes stored, the front cursor after the loop and whether the loop
\* broke on an Err item.
read_loop(str, olen, f, b, room, acc) ==
    IF room = 0 \/ f = b
    THEN [bytes |-> acc, front |-> f, hitErr |-> FALSE]
    ELSE LET it == front_item(str, olen, f, b - (f + 1))
         IN  IF it.tag = "Ok"
             THEN read_loop(str, olen, f + 1, b, room - 1, Append(acc, it.byte))
             ELSE [bytes |-> acc, front |-> f + 1, hitErr |-> TRUE]

\* What io::Read::read returns after its loop: Ok(bytes_read), always.
read_result(r) ==
    [op |-> "read", tag |-> "Ok", bytes |-> r.bytes,
     invalid |-> 0, pos |-> 0, n |-> Len(r.bytes)]

\* drain_to_vec(self).
IterDrainToVec ==
    /\ ~moved
    /\ ret' = drain_to_vec(s, original_len, front, back)
    /\ sawInvalid' = (\E k \in front..(front + ret'.n - 1) : PairInvalid(s, k))
    /\ moved' = TRUE
    /\ item' = NoneItem
    /\ lastPair' = -1
    /\ UNCHANGED <<s, front, back, original_len, pairVars, codecVars, bufVars, fmtVars, runVars, hwVars, errVars, encVars>>

\* drain_to_slice(self, buf) with buf.len() = buflen.
IterDrainToSlice(buflen) ==
    /\ ~moved
    /\ ret' = drain_to_slice(s, original_len, front, back, buflen)
    /\ sawInvalid' = (\E k \in front..(front + ret'.n - 1) : PairInvalid(s, k))
    /\ moved' = TRUE
    /\ item' = NoneItem
    /\ lastPair' = -1
    /\ UNCHANGED <<s, front, back, original_len, pairVars, codecVars, bufVars, fmtVars, runVars, hwVars, errVars, encVars>>

\* <HexToBytesIter as io::Read>::read(&mut self, buf) with buf.len() = buflen.
IterRead(buflen) ==
    /\ ~moved
    /\ LET r == read_loop(s, original_len, front, back, buflen, <<>>)
       IN  /\ ret' = read_result(r)
           /\ front' = r.front
           /\ sawInvalid' = r.hitErr
    /\ item' = NoneItem
    /\ lastPair' = -1
    /\ UNCHANGED <<s, back, original_len, moved, pairVars, codecVars, bufVars, fmtVars, runVars, hwVars, errVars, encVars>>

NextIter ==
    \/ IterNext
    \/ IterNextBack
    \/ \E n \in 0..MaxSkip : IterNth(n)
    \/ \E n \in 0..MaxSkip : IterNthBack(n)
    \/ IterDrainToVec
    \/ \E n \in 0..MaxPairs : IterDrainToSlice(n)
    \/ \E n \in 0..MaxPairs : IterRead(n)

\* The calls of Iterator and DoubleEndedIterator alone.
NextIterCalls ==
    \/ IterNext
    \/ IterNextBack
    \/ \E n \in 0..MaxSkip : IterNth(n)
    \/ \E n \in 0..MaxSkip : IterNthBack(n)

\* ------------------------------------------------------- buffered encoder

\* A space_remaining that counts characters, not bytes to encode.
space_remaining_Chars(data, capacity) == capacity - Len(data)

\* BufEncoder::space_remaining of a buffer of `capacity` bytes holding `data`.
space_remaining(data, capacity) == (capacity - Len(data)) \div 2

\* A put_byte that appends the one character that still fits.
put_byte_Partial(data, capacity, t, byte) ==
    IF capacity - Len(data) < 1
    THEN [buf |-> data, panicked |-> TRUE]
    ELSE [buf |-> SubSeq(data \o byte_to_chars(t, byte), 1, Min(capacity, Len(data) + 2)),
          panicked |-> FALSE]

\* BufEncoder::put_byte: ArrayString::push_str panics, and appends nothing,
\* when the two characters do not fit.
put_byte(data, capacity, t, byte) ==
    IF capacity - Len(data) < 2
    THEN [buf |-> data, panicked |-> TRUE]
    ELSE [buf |-> data \o byte_to_chars(t, byte), panicked |-> FALSE]

RECURSIVE put_loop(_, _, _, _)
\* The loop `for byte in bytes { self.put_byte(byte) }` of put_bytes_inner:
\* put_byte for each byte in order, up to the first that panics.  The
\* bytes are gone through by halves, the first half before the second, which
\* keeps the evaluation shallow for the 512-byte chunks of the display; b
\* is the bytes, h the length of the first half and r the encoder after it.
put_loop(data, capacity, t, bytes) ==
    CHOOSE o \in
        { IF b = <<>>
          THEN [buf |-> data, panicked |-> FALSE]
          ELSE IF Len(b) = 1
          THEN put_byte(data, capacity, t, Head(b))
          ELSE CHOOSE o2 \in
                  { IF r.panicked THEN r
                    ELSE put_loop(r.buf, capacity, t, SubSeq(b, h + 1, Len(b))) :
                    r \in { put_loop(data, capacity, t, SubSeq(b, 1, h)) } } : TRUE :
          b \in { bytes }, h \in { Len(bytes) \div 2 } } : TRUE

\* A put_bytes that does not look at the size hint.
put_bytes_NoHint(data, capacity, t, bytes, hinted) == put_loop(data, capacity, t, bytes)

\* BufEncoder::put_bytes / put_bytes_inner; hinted says that the iterator's
\* upper size hint is known (it is then the number of bytes, as for a slice).
put_bytes(data, capacity, t, bytes, hinted) ==
    IF hinted /\ Len(bytes) > space_remaining(data, capacity)
    THEN [buf |-> data, panicked |-> TRUE]
    ELSE put_loop(data, capacity, t, bytes)

\* A put_bytes_min that hands every byte to put_bytes.
put_bytes_min_NoMin(data, capacity, t, bytes) ==
    LET r == put_bytes(data, capacity, t, bytes, TRUE)
    IN  [buf |-> r.buf, panicked |-> r.panicked, rest |-> <<>>]

\* BufEncoder::put_bytes_min: never more bytes than space_remaining.
put_bytes_min(data, capacity, t, bytes) ==
    LET to_write == Min(space_remaining(data, capacity), Len(bytes))
        r == put_bytes(data, capacity, t, SubSeq(bytes, 1, to_write), TRUE)
    IN  [buf |-> r.buf, panicked |-> r.panicked,
         rest |-> SubSeq(bytes, to_write + 1, Len(bytes))]

\* char::encode_utf8 of the code point c.
encode_utf8(c) ==
    IF c < 128 THEN << c >>
    ELSE IF c < 2048 THEN << 192 + (c \div 64), 128 + (c % 64) >>
    ELSE IF c < 65536
    THEN << 224 + (c \div 4096), 128 + ((c \div 64) % 64), 128 + (c % 64) >>
    ELSE << 240 + (c \div 262144), 128 + ((c \div 4096) % 64),
            128 + ((c \div 64) % 64), 128 + (c % 64) >>

\* n copies of the bytes x, one after the other.
Repeat(x, n) == [i \in 1..(n * Len(x)) |-> x[((i - 1) % Len(x)) + 1]]

\* A put_filler that takes the room left from space_remaining, two bytes
\* to a character.
put_filler_HalfCap(data, capacity, c, max_count) ==
    LET filler == encode_utf8(c)
        to_write == Min(space_remaining(data, capacity), max_count)
    IN  [buf |-> data \o Repeat(filler, to_write), to_write |-> to_write]

\* BufEncoder::put_filler.
put_filler(data, capacity, c, max_count) ==
    LET filler == encode_utf8(c)
        max_capacity == (capacity - Len(data)) \div Len(filler)
        to_write == Min(max_capacity, max_count)
    IN  [buf |-> data \o Repeat(filler, to_write), to_write |-> to_write]

\* The bytes put and the fill characters (space, e-acute, the euro sign and
\* an emoji: 1, 2, 3 and 4 bytes of UTF-8).
BufBytes == { 42, 255 }
FillChars == { 32, 233, 8364, 128512 }

Op(name, need, before) == [name |-> name, need |-> need, before |-> before]

\* The arguments of a call: the bytes given (put_byte, put_bytes,
\* put_bytes_min), whether their upper size hint is known, the fill
\* character and max_count (put_filler); rest is the slice put_bytes_min
\* returned.
Arg(bytes, hinted, c, max_count, rest) ==
    [bytes |-> bytes, hinted |-> hinted, c |-> c, max_count |-> max_count, rest |-> rest]

NoArg == Arg(<<>>, TRUE, 0, 0, <<>>)

\* BufEncoder::is_full: ArrayString::is_full, the length is the capacity.
is_full(data, capacity) == Len(data) = capacity

\* BufEncoder::<CAP>::new(case); CAP is even, or new does not compile.
BufNew(c, k) ==
    /\ buf' = <<>>
    /\ cap' = c
    /\ bcase' = k
    /\ panicked' = FALSE
    /\ rv' = 0
    /\ lastOp' = Op("new", 0, 0)
    /\ fillerLen' = 0
    /\ lastArg' = NoArg
    /\ UNCHANGED <<pairVars, iterVars, codecVars, fmtVars, runVars, hwVars, errVars, encVars>>

BufInit ==
    /\ buf = <<>>
    /\ cap \in { 2 * k : k \in 0..MaxHalfCap }
    /\ bcase \in Case
    /\ panicked = FALSE
    /\ rv = 0
    /\ lastOp = Op("new", 0, 0)
    /\ fillerLen = 0
    /\ lastArg = NoArg

BufIdle ==
    /\ buf = <<>>
    /\ cap = 0
    /\ bcase = "Lower"
    /\ panicked = FALSE
    /\ rv = 0
    /\ lastOp = Op("new", 0, 0)
    /\ fillerLen = 0
    /\ lastArg = NoArg

\* encoder.put_byte(byte).
BufPutByte(byte) ==
    /\ ~panicked
    /\ LET r == put_byte(buf, cap, table(bcase), byte)
       IN  buf' = r.buf /\ panicked' = r.panicked
    /\ rv' = 0
    /\ lastOp' = Op("put_byte", 2, Len(buf))
    /\ lastArg' = Arg(<<byte>>, TRUE, 0, 0, <<>>)
    /\ UNCHANGED <<cap, bcase, fillerLen, pairVars, iterVars, codecVars, fmtVars, runVars, hwVars, errVars, encVars>>

\* encoder.put_bytes(bytes).
BufPutBytes(bytes, hinted) ==
    /\ ~panicked
    /\ LET r == put_bytes(buf, cap, table(bcase), bytes, hinted)
       IN  buf' = r.buf /\ panicked' = r.panicked
    /\ rv' = 0
    /\ lastOp' = Op("put_bytes", 2 * Len(bytes), Len(buf))
    /\ lastArg' = Arg(bytes, hinted, 0, 0, <<>>)
    /\ UNCHANGED <<cap, bcase, fillerLen, pairVars, iterVars, codecVars, fmtVars, runVars, hwVars, errVars, encVars>>

\* encoder.put_bytes_min(bytes).
BufPutBytesMin(bytes) ==
    /\ ~panicked
    /\ LET r == put_bytes_min(buf, cap, table(bcase), bytes)
       IN  /\ buf' = r.buf /\ panicked' = r.panicked /\ rv' = Len(r.rest)
           /\ lastArg' = Arg(bytes, TRUE, 0, 0, r.rest)
    /\ lastOp' = Op("put_bytes_min", 2 * Len(bytes), Len(buf))
    /\ UNCHANGED <<cap, bcase, fillerLen, pairVars, iterVars, codecVars, fmtVars, runVars, hwVars, errVars, encVars>>

\* encoder.put_filler(c, max_count).
BufPutFiller(c, max_count) ==
    /\ ~panicked
    /\ LET r == put_filler(buf, cap, c, max_count)
       IN  /\ buf' = r.buf
           /\ rv' = r.to_write
           /\ fillerLen' = fillerLen + (Len(r.buf) - Len(buf))
    /\ panicked' = FALSE
    /\ lastOp' = Op("put_filler", max_count * Len(encode_utf8(c)), Len(buf))
    /\ lastArg' = Arg(<<>>, TRUE, c, max_count, <<>>)
    /\ UNCHANGED <<cap, bcase, pairVars, iterVars, codecVars, fmtVars, runVars, hwVars, errVars, encVars>>

\* encoder.clear().
BufClear ==
    /\ ~panicked
    /\ buf' = <<>>
    /\ rv' = 0
    /\ fillerLen' = 0
    /\ lastOp' = Op("clear", 0, Len(buf))
    /\ lastArg' = NoArg
    /\ UNCHANGED <<cap, bcase, panicked, pairVars, iterVars, codecVars, fmtVars, runVars, hwVars, errVars, encVars>>

NextBuf ==
    \/ \E k \in 0..MaxHalfCap, c \in Case : BufNew(2 * k, c)
    \/ \E b \in BufBytes : BufPutByte(b)
    \/ \E n \in 0..MaxPut : \E bytes \in SeqsOfLen(BufBytes, n), h \in BOOLEAN :
          BufPutBytes(bytes, h)
    \/ \E n \in 0..MaxPut : \E bytes \in SeqsOfLen(BufBytes, n) : BufPutBytesMin(bytes)
    \/ \E c \in FillChars, n \in 0..MaxFill : BufPutFiller(c, n)
    \/ BufClear

\* ------------------------------------------------------------------ display

\* The capacity of internal_display's encoder and the chunk it encodes at once.
DisplayCap == 1024
ChunkLen == 512

RECURSIVE encode_body(_, _)
\* internal_display's body without precision: one put_bytes, write_str and
\* clear per chunk of ChunkLen bytes, then the remainder.
encode_body(bytes, case) ==
    IF Len(bytes) >= ChunkLen
    THEN LET r == put_bytes(<<>>, DisplayCap, table(case), SubSeq(bytes, 1, ChunkLen), TRUE)
             rest == encode_body(SubSeq(bytes, ChunkLen + 1, Len(bytes)), case)
         IN  [text |-> r.buf \o rest.text, panicked |-> r.panicked \/ rest.panicked]
    ELSE LET r == put_bytes(<<>>, DisplayCap, table(case), bytes, TRUE)
         IN  [text |-> r.buf, panicked |-> r.panicked]

\* DisplayHex::to_hex_string: `{:x}` or `{:X}` of as_hex(), which has no
\* width, no precision and no `#`, so that internal_display writes the body only.
to_hex_string(bytes, case) == encode_body(bytes, case).text

\* None of the Formatter's width() and precision().
NoOpt == -1

\* The options of a fmt::Formatter: width and precision (NoOpt: none), the
\* fill character (a code point), the alignment (None when not given) and
\* the `#` flag.
FmtOpts(width, precision, fill, align, alternate) ==
    [width |-> width, precision |-> precision, fill |-> fill, align |-> align,
     alternate |-> alternate]

\* The Formatter `{}` is formatted with.
DefaultOpts == FmtOpts(NoOpt, NoOpt, 32, "None", FALSE)

\* One f.write_str or f.write_char, with the part of the output it is for:
\* left (write_pad_left), prefix, body, right (write_pad_right).
Write(part, txt) == [part |-> part, text |-> txt]

\* The padding of write_pad_left and write_pad_right: the emptied encoder is
\* filled with up to `count` fill characters, written count / chunk_len
\* times in full and once cut to the count % chunk_len characters left.
pad_chunks(part, c, count) ==
    LET e == put_filler(<<>>, DisplayCap, c, count)
        chunk_len == e.to_write
        padding == e.buf
    IN  [i \in 1..(count \div chunk_len) |-> Write(part, padding)]
        \o << Write(part, SubSeq(padding, 1, (count % chunk_len) * Len(encode_utf8(c)))) >>

\* A string_len that leaves the precision out.
string_len_NoPrecision(fo, bytes_len) ==
    IF fo.alternate THEN bytes_len * 2 + 2 ELSE bytes_len * 2

\* write_pad_left: the length the padding is computed for.
string_len(fo, bytes_len) ==
    LET full_string_len == IF fo.alternate THEN bytes_len * 2 + 2 ELSE bytes_len * 2
    IN  IF fo.precision # NoOpt THEN Min(fo.precision, full_string_len)
        ELSE full_string_len

\* A split that gives the odd character of a centered text to the left.
pad_split_OddLeft(align, d) ==
    CASE align = "Right" -> << d, 0 >>
      [] align = "Center" -> << (d + 1) \div 2, d \div 2 >>
      [] OTHER -> << 0, d >>

\* write_pad_left: (left, right) for the padding d = width - string_len.
pad_split(align, d) ==
    CASE align = "Right" -> << d, 0 >>
      [] align = "Center" -> << d \div 2, (d + 1) \div 2 >>
      [] OTHER -> << 0, d >>

\* write_pad_left: what it writes and the pad_right it returns.
write_pad_left(fo, bytes_len) ==
    IF fo.width # NoOpt /\ string_len(fo, bytes_len) < fo.width
    THEN LET lr == pad_split(fo.align, fo.width - string_len(fo, bytes_len))
         IN  [writes |-> IF lr[1] > 0 THEN pad_chunks("left", fo.fill, lr[1]) ELSE <<>>,
              pad_right |-> lr[2]]
    ELSE [writes |-> <<>>, pad_right |-> 0]

\* write_pad_right.
write_pad_right(fo, pad_right) ==
    IF pad_right > 0 THEN pad_chunks("right", fo.fill, pad_right) ELSE <<>>

\* The `0x` of the `#` flag.
prefix_writes(fo) == IF fo.alternate THEN << Write("prefix", <<48, 120>>) >> ELSE <<>>

RECURSIVE internal_display(_, _, _)
\* internal_display: with a precision that cuts the text, the bytes before
\* the cut are written by `write!(f, "{}", bytes[..max / 2].as_hex())`, that
\* is by Display, which is LowerHex, under a Formatter without options.
internal_display(bytes, fo, case) ==
    LET pl == write_pad_left(fo, Len(bytes))
        max == fo.precision
        body ==
            IF max # NoOpt /\ Len(bytes) > max \div 2
            THEN LET inner == internal_display(SubSeq(bytes, 1, max \div 2), DefaultOpts, "Lower")
                 IN  [writes |-> inner.writes \o
                         (IF max % 2 = 1
                          THEN << Write("body", << byte_to_chars(table(case), bytes[max \div 2 + 1])[1] >>) >>
                          ELSE <<>>),
                      panicked |-> inner.panicked]
            ELSE LET e == encode_body(bytes, case)
                 IN  [writes |-> << Write("body", e.text) >>, panicked |-> e.panicked]
    IN  [writes |-> pl.writes \o prefix_writes(fo) \o body.writes
                    \o write_pad_right(fo, pl.pad_right),
         panicked |-> body.panicked]

\* fmt_hex_exact_fn::<_, N> over the N / 2 bytes fmt_hex_exact! checked.
fmt_hex_exact_fn(bytes, fo, case) ==
    LET N == 2 * Len(bytes)
        pl == write_pad_left(fo, N \div 2)
        p == fo.precision
        e == IF p # NoOpt /\ p < N
             THEN put_bytes(<<>>, N, table(case), SubSeq(bytes, 1, (p + 1) \div 2), TRUE)
             ELSE put_bytes(<<>>, N, table(case), bytes, TRUE)
        encoded_str == IF p # NoOpt /\ p < N THEN SubSeq(e.buf, 1, p) ELSE e.buf
    IN  [writes |-> pl.writes \o prefix_writes(fo) \o << Write("body", encoded_str) >>
                    \o write_pad_right(fo, pl.pad_right),
         panicked |-> e.panicked]

\* Display and Debug of DisplayByteSlice and DisplayArray:
\* fmt::LowerHex::fmt(self, f).
display_fmt(bytes, fo) == internal_display(bytes, fo, "Lower")

RECURSIVE Written(_)
\* The text the writes ws put out, in order.
Written(ws) == IF ws = <<>> THEN <<>> ELSE Head(ws).text \o Written(Tail(ws))

\* The bytes formatted, the fill characters (space, 0 and the two-byte
\* e-acute) and the alignments.
FmtByteSet == { 1, 171 }
FmtFills == { 32, 48, 233 }
Aligns == { "None", "Left", "Right", "Center" }

FmtCall(path, bytes, case, fo) == [path |-> path, bytes |-> bytes, case |-> case, opts |-> fo]

NoFmtOut == [writes |-> <<>>, panicked |-> FALSE]

FmtIdle ==
    /\ fcall = FmtCall("none", <<>>, "Lower", DefaultOpts)
    /\ fout = NoFmtOut

AllFmtOpts ==
    { FmtOpts(w, p, f, a, alt) :
        w \in {NoOpt} \cup 0..MaxWidth, p \in {NoOpt} \cup 0..MaxPrecision,
        f \in FmtFills, a \in Aligns, alt \in BOOLEAN }

\* The bytes, the case and the Formatter of a formatting call not made yet.
FmtInit ==
    /\ fcall \in { FmtCall("none", bytes, c, fo) :
                      bytes \in UNION { SeqsOfLen(FmtByteSet, n) : n \in 0..MaxFmtBytes },
                      c \in Case, fo \in AllFmtOpts }
    /\ fout = NoFmtOut

\* format!("{:x}" or "{:X}" with the options, bytes.as_hex()).
FmtAsHex ==
    /\ fcall.path = "none"
    /\ fcall' = [fcall EXCEPT !.path = "as_hex"]
    /\ fout' = internal_display(fcall.bytes, fcall.opts, fcall.case)
    /\ UNCHANGED <<pairVars, iterVars, codecVars, bufVars, runVars, hwVars, errVars, encVars>>

\* fmt_hex_exact!(f, len, bytes, case) under a Formatter with the options.
FmtExact ==
    /\ fcall.path = "none"
    /\ fcall' = [fcall EXCEPT !.path = "fmt_hex_exact"]
    /\ fout' = fmt_hex_exact_fn(fcall.bytes, fcall.opts, fcall.case)
    /\ UNCHANGED <<pairVars, iterVars, codecVars, bufVars, runVars, hwVars, errVars, encVars>>

NextFmt == FmtAsHex \/ FmtExact

\* Long inputs: the lengths around the 512-byte chunk and the 1024-byte
\* encoder, the widths that ask for more padding than the encoder holds,
\* and fill characters of 1, 2, 3 and 4 bytes of UTF-8.
LongLens == { 1, 512, 513, 1024, 1025 }
LongWidths == { NoOpt, 1026, 2100 }
LongPrecisions == { NoOpt, 3 }

\* n bytes that differ from their neighbours.
LongBytes(n) == [i \in 1..n |-> (i * 37) % 256]

LongFmtOpts ==
    { FmtOpts(w, p, f, a, alt) :
        w \in LongWidths, p \in LongPrecisions, f \in FillChars, a \in Aligns,
        alt \in BOOLEAN }

\* A long slice, the case and the Formatter of a formatting call not made yet.
LongInit ==
    /\ fcall \in { FmtCall("none", LongBytes(n), c, fo) :
                      n \in LongLens, c \in Case, fo \in LongFmtOpts }
    /\ fout = NoFmtOut

\* ------------------------------------------------ the calls, loop by loop

\* An encoder that keeps its content when cleared.
clear_Keep(data) == data

\* BufEncoder::clear.
clear(data) == <<>>

\* A tail of the padding cut at count % chunk_len bytes.
pad_tail_Bytes(padding, count, chunk_len, c) == SubSeq(padding, 1, count % chunk_len)

\* &padding[..((count % chunk_len) * c.len_utf8())] of write_pad_left and
\* write_pad_right.
pad_tail(padding, count, chunk_len, c) ==
    SubSeq(padding, 1, (count % chunk_len) * Len(encode_utf8(c)))

\* A chunk loop that does not move on.
chunk_rest_Stay(bytes) == bytes

\* What ChunksExact::next leaves of the bytes after a chunk.
chunk_rest(bytes) == SubSeq(bytes, ChunkLen + 1, Len(bytes))

\* Whether internal_display takes the branch of a precision that cuts the
\* text: `Some(max) if bytes.len() > max / 2`.
truncating(bytes, fo) == fo.precision # NoOpt /\ Len(bytes) > fo.precision \div 2

Pad(count, chunk_len, i) == [count |-> count, chunk_len |-> chunk_len, i |-> i]

NoPad == Pad(0, 0, 0)

RunIdle ==
    /\ pc = "idle"
    /\ encoder = <<>>
    /\ inner_encoder = <<>>
    /\ pad = NoPad
    /\ right = 0
    /\ chunks = <<>>
    /\ fired = FALSE
    /\ steps = 0

\* Before internal_display(bytes, f, case) on a long slice (the encoder is
\* BufEncoder::<1024>::new(case)), or before drain_to_vec on a new iterator.
RunInit ==
    /\ \/ LongInit /\ IterIdle /\ pc = "start"
       \/ IterInit /\ FmtIdle /\ pc = "drain"
    /\ encoder = <<>>
    /\ inner_encoder = <<>>
    /\ pad = NoPad
    /\ right = 0
    /\ chunks = <<>>
    /\ fired = FALSE
    /\ steps = 0

\* f.write_str(txt) for a part of the output.
Emit(part, txt) == fout' = [fout EXCEPT !.writes = Append(@, Write(part, txt))]

\* write_pad_left up to its loop: string_len, (left, right), put_filler.  A
\* chunk_len of 0 makes `left / chunk_len` panic.
RunPadLeftStart ==
    /\ pc = "start"
    /\ fcall' = [fcall EXCEPT !.path = "run"]
    /\ LET fo == fcall.opts
           sl == string_len(fo, Len(fcall.bytes))
           lr == IF fo.width # NoOpt /\ sl < fo.width
                 THEN pad_split(fo.align, fo.width - sl)
                 ELSE << 0, 0 >>
       IN  /\ right' = lr[2]
           /\ IF lr[1] > 0
              THEN \E e \in { put_filler(encoder, DisplayCap, fo.fill, lr[1]) } :
                      /\ encoder' = e.buf
                      /\ pad' = Pad(lr[1], e.to_write, 0)
                      /\ pc' = IF e.to_write = 0 THEN "done" ELSE "pad_left"
                      /\ fired' = (e.to_write = 0)
              ELSE /\ pc' = "prefix"
                   /\ UNCHANGED <<encoder, pad, fired>>
    /\ UNCHANGED <<fout, inner_encoder, chunks, steps>>
    /\ UNCHANGED <<pairVars, iterVars, codecVars, bufVars, hwVars, errVars, encVars>>

\* One iteration of `for _ in 0..(count / chunk_len) { f.write_str(padding) }`.
RunPadWrite ==
    /\ pc \in {"pad_left", "pad_right"}
    /\ pad.i < pad.count \div pad.chunk_len
    /\ steps < MaxSteps
    /\ Emit(IF pc = "pad_left" THEN "left" ELSE "right", encoder)
    /\ pad' = [pad EXCEPT !.i = @ + 1]
    /\ steps' = steps + 1
    /\ UNCHANGED <<pc, encoder, inner_encoder, right, chunks, fired, fcall>>
    /\ UNCHANGED <<pairVars, iterVars, codecVars, bufVars, hwVars, errVars, encVars>>

\* After the loop: the tail of the padding, and encoder.clear() in
\* write_pad_left; write_pad_right returns.
RunPadTail ==
    /\ pc \in {"pad_left", "pad_right"}
    /\ pad.i = pad.count \div pad.chunk_len
    /\ Emit(IF pc = "pad_left" THEN "left" ELSE "right",
            pad_tail(encoder, pad.count, pad.chunk_len, fcall.opts.fill))
    /\ encoder' = IF pc = "pad_left" THEN clear(encoder) ELSE encoder
    /\ pc' = IF pc = "pad_left" THEN "prefix" ELSE "done"
    /\ UNCHANGED <<inner_encoder, pad, right, chunks, fired, steps, fcall>>
    /\ UNCHANGED <<pairVars, iterVars, codecVars, bufVars, hwVars, errVars, encVars>>

\* `0x` under `#`, then the match on the precision: the nested
\* `write!(f, "{}", bytes[..(max / 2)].as_hex())` is internal_display under
\* a Formatter without options, with an encoder of its own, or the chunk
\* loop over the bytes.
RunPrefix ==
    /\ pc = "prefix"
    /\ fout' = [fout EXCEPT !.writes = @ \o prefix_writes(fcall.opts)]
    /\ IF truncating(fcall.bytes, fcall.opts)
       THEN /\ pc' = "inner"
            /\ chunks' = SubSeq(fcall.bytes, 1, fcall.opts.precision \div 2)
       ELSE /\ pc' = "body"
            /\ chunks' = fcall.bytes
    /\ inner_encoder' = <<>>
    /\ UNCHANGED <<encoder, pad, right, fired, steps, fcall>>
    /\ UNCHANGED <<pairVars, iterVars, codecVars, bufVars, hwVars, errVars, encVars>>

\* One iteration of `for chunk in &mut chunks`: put_bytes, write_str, clear.
RunChunk ==
    /\ pc \in {"body", "inner"}
    /\ Len(chunks) >= ChunkLen
    /\ steps < MaxSteps
    /\ \E r \in { put_bytes(IF pc = "body" THEN encoder ELSE inner_encoder, DisplayCap,
                            table(IF pc = "body" THEN fcall.case ELSE "Lower"),
                            SubSeq(chunks, 1, ChunkLen), TRUE) } :
           IF r.panicked
           THEN /\ fired' = TRUE
                /\ pc' = "done"
                /\ UNCHANGED <<fout, encoder, inner_encoder, chunks, steps>>
           ELSE /\ Emit("body", r.buf)
                /\ encoder' = IF pc = "body" THEN clear(r.buf) ELSE encoder
                /\ inner_encoder' = IF pc = "inner" THEN clear(r.buf) ELSE inner_encoder
                /\ chunks' = chunk_rest(chunks)
                /\ steps' = steps + 1
                /\ UNCHANGED <<pc, fired>>
    /\ UNCHANGED <<pad, right, fcall>>
    /\ UNCHANGED <<pairVars, iterVars, codecVars, bufVars, hwVars, errVars, encVars>>

\* After the loop: encoder.put_bytes(chunks.remainder()) and write_str.
RunRemainder ==
    /\ pc \in {"body", "inner"}
    /\ Len(chunks) < ChunkLen
    /\ \E r \in { put_bytes(IF pc = "body" THEN encoder ELSE inner_encoder, DisplayCap,
                            table(IF pc = "body" THEN fcall.case ELSE "Lower"),
                            chunks, TRUE) } :
           IF r.panicked
           THEN /\ fired' = TRUE
                /\ pc' = "done"
                /\ UNCHANGED <<fout, encoder, inner_encoder, chunks>>
           ELSE /\ Emit("body", r.buf)
                /\ encoder' = IF pc = "body" THEN r.buf ELSE encoder
                /\ inner_encoder' = IF pc = "inner" THEN r.buf ELSE inner_encoder
                /\ chunks' = <<>>
                /\ pc' = "after_body"
                /\ UNCHANGED fired
    /\ UNCHANGED <<pad, right, steps, fcall>>
    /\ UNCHANGED <<pairVars, iterVars, codecVars, bufVars, hwVars, errVars, encVars>>

\* The high character of the byte an odd precision cuts, then
\* write_pad_right up to its loop: clear and put_filler when pad_right > 0.
RunPadRightStart ==
    /\ pc = "after_body"
    /\ LET fo == fcall.opts
           max == fo.precision
       IN  /\ fout' = [fout EXCEPT !.writes = @ \o
                         (IF truncating(fcall.bytes, fo) /\ max % 2 = 1
                          THEN << Write("body",
                                   << byte_to_chars(table(fcall.case),
                                                    fcall.bytes[max \div 2 + 1])[1] >>) >>
                          ELSE <<>>)]
           /\ IF right > 0
              THEN \E e \in { put_filler(clear(encoder), DisplayCap, fo.fill, right) } :
                      /\ encoder' = e.buf
                      /\ pad' = Pad(right, e.to_write, 0)
                      /\ pc' = IF e.to_write = 0 THEN "done" ELSE "pad_right"
                      /\ fired' = (e.to_write = 0)
              ELSE /\ pc' = "done"
                   /\ UNCHANGED <<encoder, pad, fired>>
    /\ UNCHANGED <<inner_encoder, right, chunks, steps, fcall>>
    /\ UNCHANGED <<pairVars, iterVars, codecVars, bufVars, hwVars, errVars, encVars>>

\* One iteration of `for byte in self { write(ptr, byte?) }` of drain_to_vec:
\* next() decodes a pair, and an Err returns from the call.
RunDrainStep ==
    /\ pc = "drain"
    /\ front < back
    /\ steps < MaxSteps
    /\ LET it == front_item(s, original_len, front, back - (front + 1))
       IN  /\ item' = it
           /\ IF it.tag = "Err"
              THEN /\ ret' = [op |-> "drain_to_vec", tag |-> "Err", bytes |-> <<>>,
                              invalid |-> it.invalid, pos |-> it.pos, n |-> ret.n + 1]
                   /\ pc' = "done"
                   /\ moved' = TRUE
              ELSE /\ ret' = [ret EXCEPT !.op = "drain_to_vec",
                                         !.bytes = Append(@, it.byte), !.n = @ + 1]
                   /\ UNCHANGED <<pc, moved>>
    /\ front' = front + 1
    /\ lastPair' = front
    /\ sawInvalid' = PairInvalid(s, front)
    /\ steps' = steps + 1
    /\ UNCHANGED <<s, back, original_len, encoder, inner_encoder, pad, right, chunks, fired>>
    /\ UNCHANGED <<pairVars, codecVars, bufVars, fmtVars, hwVars, errVars, encVars>>

\* next() returned None: ret.set_len(len) and Ok(ret).
RunDrainEnd ==
    /\ pc = "drain"
    /\ front = back
    /\ ret' = [ret EXCEPT !.op = "drain_to_vec", !.tag = "Ok"]
    /\ item' = NoneItem
    /\ lastPair' = -1
    /\ sawInvalid' = FALSE
    /\ moved' = TRUE
    /\ pc' = "done"
    /\ UNCHANGED <<s, front, back, original_len, encoder, inner_encoder, pad, right,
                   chunks, fired, steps>>
    /\ UNCHANGED <<pairVars, codecVars, bufVars, fmtVars, hwVars, errVars, encVars>>

NextRun ==
    \/ RunPadLeftStart
    \/ RunPadWrite
    \/ RunPadTail
    \/ RunPrefix
    \/ RunChunk
    \/ RunRemainder
    \/ RunPadRightStart
    \/ RunDrainStep
    \/ RunDrainEnd

\* ------------------------------------------------------------ HexWriter

\* The capacity of an inner writer that is a String.
NoCap == -1

\* fmt::Write::write_str of the inner writer: an ArrayString<CAP> returns
\* Err, and appends nothing, when the text does not fit; a String appends.
write_str(dest, capacity, txt) ==
    IF capacity # NoCap /\ Len(txt) > capacity - Len(dest)
    THEN [ok |-> FALSE, dest |-> dest]
    ELSE [ok |-> TRUE, dest |-> dest \o txt]

RECURSIVE write_loop(_, _, _, _, _)
\* The loop of HexWriter::write: byte_to_str and write_str for each byte,
\* `break` at the first Err, n counting the bytes written.
write_loop(dest, capacity, t, src, n) ==
    IF src = <<>>
    THEN [n |-> n, dest |-> dest]
    ELSE CHOOSE o \in
            { IF ~w.ok THEN [n |-> n, dest |-> w.dest]
              ELSE write_loop(w.dest, capacity, t, Tail(src), n + 1) :
              w \in { write_str(dest, capacity, byte_to_chars(t, Head(src))) } } : TRUE

\* A write that returns Ok(n) whatever n is.
hex_writer_write_NoErr(dest, capacity, t, src) ==
    LET r == write_loop(dest, capacity, t, src, 0)
    IN  [tag |-> "Ok", n |-> r.n, dest |-> r.dest]

\* <HexWriter<T> as io::Write>::write.
hex_writer_write(dest, capacity, t, src) ==
    LET r == write_loop(dest, capacity, t, src, 0)
    IN  IF r.n = 0 /\ src # <<>>
        THEN [tag |-> "Err", n |-> 0, dest |-> r.dest]
        ELSE [tag |-> "Ok", n |-> r.n, dest |-> r.dest]

\* The bytes written through a HexWriter.
HwBytes == { 171, 205 }

HwRet(tag, n) == [tag |-> tag, n |-> n]

\* HexWriter::new(dest, case) over an empty ArrayString<CAP> or String.
HwInit ==
    /\ hw_cap \in {NoCap} \cup 0..MaxHwCap
    /\ hw_case \in Case
    /\ hw_dest = <<>>
    /\ hw_buf = <<>>
    /\ hw_before = <<>>
    /\ hw_ret = HwRet("none", 0)
    /\ hw_calls = 0

HwIdle ==
    /\ hw_cap = NoCap
    /\ hw_case = "Lower"
    /\ hw_dest = <<>>
    /\ hw_buf = <<>>
    /\ hw_before = <<>>
    /\ hw_ret = HwRet("none", 0)
    /\ hw_calls = 0

\* writer.write(buf).
HwWrite(src) ==
    /\ hw_calls < MaxHwCalls
    /\ hw_calls' = hw_calls + 1
    /\ hw_buf' = src
    /\ hw_before' = hw_dest
    /\ \E r \in { hex_writer_write(hw_dest, hw_cap, table(hw_case), src) } :
          /\ hw_dest' = r.dest
          /\ hw_ret' = HwRet(r.tag, r.n)
    /\ UNCHANGED <<hw_cap, hw_case>>
    /\ UNCHANGED <<pairVars, iterVars, codecVars, bufVars, fmtVars, runVars, errVars, encVars>>

NextHw == \E src \in UNION { SeqsOfLen(HwBytes, n) : n \in 0..MaxHwBuf } : HwWrite(src)

\* ----------------------------------------------------- InvalidDigitError

\* A UTF-8 continuation byte.
IsCont(b) == b \in 128..191

\* The length of the UTF-8 character v starts with, 0 when it starts with
\* none (core::str::from_utf8 accepts no overlong form, no surrogate and
\* nothing above U+10FFFF).
Utf8CharLen(v) ==
    IF v = <<>> THEN 0
    ELSE IF v[1] < 128 THEN 1
    ELSE IF v[1] \in 194..223
    THEN (IF Len(v) >= 2 /\ IsCont(v[2]) THEN 2 ELSE 0)
    ELSE IF v[1] \in 224..239
    THEN (IF /\ Len(v) >= 3
             /\ v[2] \in (IF v[1] = 224 THEN 160..191
                           ELSE IF v[1] = 237 THEN 128..159 ELSE 128..191)
             /\ IsCont(v[3])
          THEN 3 ELSE 0)
    ELSE IF v[1] \in 240..244
    THEN (IF /\ Len(v) >= 4
             /\ v[2] \in (IF v[1] = 240 THEN 144..191
                           ELSE IF v[1] = 244 THEN 128..143 ELSE 128..191)
             /\ IsCont(v[3])
             /\ IsCont(v[4])
          THEN 4 ELSE 0)
    ELSE 0

RECURSIVE from_utf8_ok(_)
\* Whether core::str::from_utf8(v) is Ok: v is a sequence of characters.
from_utf8_ok(v) ==
    \/ v = <<>>
    \/ \E k \in { Utf8CharLen(v) } : k > 0 /\ from_utf8_ok(SubSeq(v, k + 1, Len(v)))

\* s.chars().next().unwrap() of a str: the code point of its first
\* character.
first_char(v) ==
    CASE Utf8CharLen(v) = 1 -> v[1]
      [] Utf8CharLen(v) = 2 -> (v[1] % 32) * 64 + (v[2] % 64)
      [] Utf8CharLen(v) = 3 -> (v[1] % 16) * 4096 + (v[2] % 64) * 64 + (v[3] % 64)
      [] OTHER -> (v[1] % 8) * 262144 + (v[2] % 64) * 4096 + (v[3] % 64) * 64 + (v[4] % 64)

InvalidCharError(invalid, pos) == [invalid |-> invalid, pos |-> pos]

\* No InvalidCharError: the None of the inner fn error.
NoCharError == InvalidCharError(-1, -1)

\* The inner fn error: the first character of v when v is UTF-8.
error(v, pos) ==
    IF from_utf8_ok(v) THEN InvalidCharError(first_char(v), pos) ELSE NoCharError

RECURSIVE or_else(_, _)
\* error(vals, pos).or_else(|| ...) over the slices tried, in order.
or_else(tried, pos) ==
    IF tried = <<>> THEN NoCharError
    ELSE IF from_utf8_ok(Head(tried)) THEN error(Head(tried), pos)
    ELSE or_else(Tail(tried), pos)

\* crate::iter::byte_to_hex_digits: the two hex digits of a byte, as bytes.
byte_to_hex_digits(byte) == byte_to_chars(LOWER, byte)

InvalidDigitError(h, l, is_hi, pos) == [hi |-> h, lo |-> l, is_hi |-> is_hi, pos |-> pos]

\* InvalidDigitError::pos.
digit_pos(e) == IF e.is_hi THEN e.pos ELSE e.pos + 1

\* InvalidDigitError::invalid_byte.
invalid_byte(e) == IF e.is_hi THEN e.hi ELSE e.lo

\* The iterator's next item: None, Some(Ok(byte)) or Some(Err(e)).
ItemNone == [tag |-> "None", byte |-> 0, err |-> InvalidDigitError(0, 0, FALSE, 0)]
ItemOk(b) == [tag |-> "Ok", byte |-> b, err |-> InvalidDigitError(0, 0, FALSE, 0)]
ItemErr(e) == [tag |-> "Err", byte |-> 0, err |-> e]

\* InvalidDigitError::into_invalid_char_error.
into_invalid_char_error(e, next) ==
    LET d == byte_to_hex_digits(next.byte)
        n == next.err
        rich_error ==
            CASE next.tag = "Ok" ->
                    IF ~e.is_hi
                    THEN or_else(<< <<e.lo>>, <<e.lo, d[1]>>, <<e.lo, d[1], d[2]>> >>, e.pos + 1)
                    ELSE or_else(<< <<e.hi>>, <<e.hi, e.lo>>, <<e.hi, e.lo, d[1]>>,
                                    <<e.hi, e.lo, d[1], d[2]>> >>, e.pos)
              [] next.tag = "Err" ->
                    IF ~e.is_hi
                    THEN or_else(<< <<e.lo, n.hi>>, <<e.lo, n.hi, n.lo>> >>, e.pos + 1)
                    ELSE or_else(<< <<e.hi, e.lo, n.hi>>, <<e.hi, e.lo>>, <<e.hi, e.lo, n.hi>>,
                                    <<e.hi, e.lo, n.hi, n.lo>> >>, e.pos)
              [] OTHER ->
                    IF ~e.is_hi
                    THEN or_else(<< <<e.lo>> >>, e.pos + 1)
                    ELSE or_else(<< <<e.hi>>, <<e.hi, e.lo>> >>, e.pos)
    IN  IF rich_error # NoCharError THEN rich_error
        ELSE InvalidCharError(invalid_byte(e), e.pos)

\* The bytes of the pairs: a hex digit, an ASCII character that is none, and
\* bytes of characters of two and of four bytes.
ErrBytes == { 97, 122, 195, 169, 240, 159 }

ErrDigits == { 97 }

\* The errors hex_chars_to_byte gives for a pair at pos: the high digit is
\* looked at first.
DigitErrors(pos) ==
    { InvalidDigitError(h, l, TRUE, pos) : h \in ErrBytes \ ErrDigits, l \in ErrBytes }
      \cup { InvalidDigitError(h, l, FALSE, pos) : h \in ErrDigits, l \in ErrBytes \ ErrDigits }

ErrInit ==
    /\ digit_err \in DigitErrors(0) \cup DigitErrors(2)
    /\ next_item \in {ItemNone} \cup { ItemOk(b) : b \in { 171, 195 } }
                       \cup { ItemErr(e) : e \in DigitErrors(digit_err.pos + 2) }
    /\ char_err = NoCharError

ErrIdle ==
    /\ digit_err = InvalidDigitError(0, 0, FALSE, 0)
    /\ next_item = ItemNone
    /\ char_err = NoCharError

\* e.into_invalid_char_error(next).
ErrConvert ==
    /\ char_err = NoCharError
    /\ char_err' = into_invalid_char_error(digit_err, next_item)
    /\ UNCHANGED <<digit_err, next_item>>
    /\ UNCHANGED <<pairVars, iterVars, codecVars, bufVars, fmtVars, runVars, hwVars, encVars>>

NextErr == ErrConvert

\* ------------------------------------------------------- BytesToHexIter

\* No character: the None of `low` and of an item.
NoChar == -1

\* What a call leaves and returns: the bytes left in the inner iterator,
\* the field low (with the byte it is of), the item, and the byte the item
\* is a character of.
EncStep(f, b, l, lof, c, of) ==
    [from |-> f, to |-> b, low |-> l, low_of |-> lof, item |-> c, item_of |-> of]

\* BytesToHexIter::next.
enc_next(bytes, t, f, b, l, lof) ==
    IF l # NoChar
    THEN EncStep(f, b, NoChar, 0, l, lof)
    ELSE IF f < b
    THEN EncStep(f + 1, b, byte_to_chars(t, bytes[f + 1])[2], f + 1,
                 byte_to_chars(t, bytes[f + 1])[1], f + 1)
    ELSE EncStep(f, b, NoChar, 0, NoChar, 0)

\* BytesToHexIter::next_back.
enc_next_back(bytes, t, f, b, l, lof) ==
    IF l # NoChar
    THEN EncStep(f, b, NoChar, 0, l, lof)
    ELSE IF f < b
    THEN EncStep(f, b - 1, byte_to_chars(t, bytes[b])[2], b,
                 byte_to_chars(t, bytes[b])[1], b)
    ELSE EncStep(f, b, NoChar, 0, NoChar, 0)

\* <BytesToHexIter as ExactSizeIterator>::len: self.iter.len() * 2.
enc_len(f, b) == (b - f) * 2

\* BytesToHexIter::size_hint over a slice iterator.
enc_size_hint(f, b, l) ==
    IF l # NoChar
    THEN << (b - f) * 2 + 1, (b - f) * 2 + 1 >>
    ELSE << (b - f) * 2, (b - f) * 2 >>

EncByteSet == { 222, 173 }

\* A character yielded, the end it was asked from and the byte it is of.
Yield(end, c, of) == [end |-> end, c |-> c, of |-> of]

\* BytesToHexIter::new(bytes.iter(), case).
EncInit ==
    /\ enc_bytes \in UNION { SeqsOfLen(EncByteSet, n) : n \in 0..MaxEncBytes }
    /\ enc_case \in Case
    /\ enc_from = 0
    /\ enc_to = Len(enc_bytes)
    /\ low = NoChar
    /\ low_of = 0
    /\ yielded = <<>>

EncIdle ==
    /\ enc_bytes = <<>>
    /\ enc_case = "Lower"
    /\ enc_from = 0
    /\ enc_to = 0
    /\ low = NoChar
    /\ low_of = 0
    /\ yielded = <<>>

\* The state after a call, and the character it returned, if any.
EncAfter(end, r) ==
    /\ enc_from' = r.from
    /\ enc_to' = r.to
    /\ low' = r.low
    /\ low_of' = r.low_of
    /\ yielded' = IF r.item = NoChar THEN yielded
                  ELSE Append(yielded, Yield(end, r.item, r.item_of))
    /\ UNCHANGED <<enc_bytes, enc_case>>
    /\ UNCHANGED <<pairVars, iterVars, codecVars, bufVars, fmtVars, runVars, hwVars, errVars>>

\* iter.next().
EncNext ==
    EncAfter("front", enc_next(enc_bytes, table(enc_case), enc_from, enc_to, low, low_of))

\* iter.next_back().
EncNextBack ==
    EncAfter("back", enc_next_back(enc_bytes, table(enc_case), enc_from, enc_to, low, low_of))

NextEnc == EncNext \/ EncNextBack

\* ------------------------------------------------------------- parse facade

\* What a decoding entry point returns: tag is Ok (with bytes), InvalidChar
\* (invalid, pos), OddLength (len) or InvalidLength (expected, len);
\* examined counts the pairs handed to hex_chars_to_byte.
Out(op, n, tag, bytes, invalid, pos, len, expected, examined) ==
    [op |-> op, N |-> n, tag |-> tag, bytes |-> bytes, invalid |-> invalid,
     pos |-> pos, len |-> len, expected |-> expected, examined |-> examined]

NoOut == Out("none", 0, "None", <<>>, 0, 0, 0, 0, 0)

\* A constructor that does not check the length.
new_odd_len_Unchecked(hex) == 0

\* HexToBytesIter::new: the odd length, or 0 when the length is even.
new_odd_len(hex) == IF Len(hex) % 2 # 0 THEN Len(hex) ELSE 0

\* decode_to_vec.
decode_to_vec(hex) ==
    IF new_odd_len(hex) # 0
    THEN Out("decode_to_vec", 0, "OddLength", <<>>, 0, 0, new_odd_len(hex), 0, 0)
    ELSE LET r == drain_to_vec(hex, Len(hex) \div 2, 0, Len(hex) \div 2)
         IN  IF r.tag = "Ok"
             THEN Out("decode_to_vec", 0, "Ok", r.bytes, 0, 0, 0, 0, r.n)
             ELSE Out("decode_to_vec", 0, "InvalidChar", <<>>, r.invalid, r.pos, 0, 0, r.n)

\* A decode_to_array that reports the length as from_byte_iter does, from
\* the number of pairs.
decode_to_array_PairLen(n, hex) ==
    IF Len(hex) = n * 2
    THEN LET r == drain_to_slice(hex, Len(hex) \div 2, 0, Len(hex) \div 2, n)
         IN  IF r.tag = "Ok"
             THEN Out("decode_to_array", n, "Ok", r.bytes, 0, 0, 0, 0, r.n)
             ELSE Out("decode_to_array", n, "InvalidChar", <<>>, r.invalid, r.pos, 0, 0, r.n)
    ELSE Out("decode_to_array", n, "InvalidLength", <<>>, 0, 0, 2 * (Len(hex) \div 2), 2 * n, 0)

\* A decode_to_array that builds its iterator with the checked constructor.
decode_to_array_ViaNew(n, hex) ==
    IF new_odd_len(hex) # 0
    THEN Out("decode_to_array", n, "OddLength", <<>>, 0, 0, new_odd_len(hex), 0, 0)
    ELSE IF Len(hex) = n * 2
    THEN LET r == drain_to_slice(hex, Len(hex) \div 2, 0, Len(hex) \div 2, n)
         IN  IF r.tag = "Ok"
             THEN Out("decode_to_array", n, "Ok", r.bytes, 0, 0, 0, 0, r.n)
             ELSE Out("decode_to_array", n, "InvalidChar", <<>>, r.invalid, r.pos, 0, 0, r.n)
    ELSE Out("decode_to_array", n, "InvalidLength", <<>>, 0, 0, Len(hex), 2 * n, 0)

\* decode_to_array::<N>.
decode_to_array(n, hex) ==
    IF Len(hex) = n * 2
    THEN LET r == drain_to_slice(hex, Len(hex) \div 2, 0, Len(hex) \div 2, n)
         IN  IF r.tag = "Ok"
             THEN Out("decode_to_array", n, "Ok", r.bytes, 0, 0, 0, 0, r.n)
             ELSE Out("decode_to_array", n, "InvalidChar", <<>>, r.invalid, r.pos, 0, 0, r.n)
    ELSE Out("decode_to_array", n, "InvalidLength", <<>>, 0, 0, Len(hex), 2 * n, 0)

RECURSIVE collect(_, _, _, _, _)
\* Iterator::collect into Result<Vec<u8>, _>, and the loop `ret[n] = byte?`
\* of the arrays' from_byte_iter: next() until None or the first Err.
collect(str, olen, f, b, acc) ==
    IF f = b
    THEN [tag |-> "Ok", bytes |-> acc, invalid |-> 0, pos |-> 0, examined |-> Len(acc)]
    ELSE LET it == front_item(str, olen, f, b - (f + 1))
         IN  IF it.tag = "Err"
             THEN [tag |-> "Err", bytes |-> <<>>, invalid |-> it.invalid,
                   pos |-> it.pos, examined |-> Len(acc) + 1]
             ELSE collect(str, olen, f + 1, b, Append(acc, it.byte))

\* <Vec<u8> as FromHex>::from_hex: from_no_prefix_hex, then from_byte_iter.
vec_from_hex(hex) ==
    IF new_odd_len(hex) # 0
    THEN Out("vec_from_hex", 0, "OddLength", <<>>, 0, 0, new_odd_len(hex), 0, 0)
    ELSE LET r == collect(hex, Len(hex) \div 2, 0, Len(hex) \div 2, <<>>)
         IN  IF r.tag = "Ok"
             THEN Out("vec_from_hex", 0, "Ok", r.bytes, 0, 0, 0, 0, r.examined)
             ELSE Out("vec_from_hex", 0, "InvalidChar", <<>>, r.invalid, r.pos, 0, 0, r.examined)

\* The lengths impl_fromhex_array! is invoked with.
FromHexLens == {2, 4, 6, 8, 10, 12, 14, 16, 20, 24, 28, 32, 33, 64, 65, 128, 256, 384, 512}

\* <[u8; N] as FromHex>::from_byte_iter over the pairs of an even-length hex.
array_from_byte_iter(n, hex) ==
    LET len == Len(hex) \div 2
    IN  IF len = n
        THEN LET r == collect(hex, len, 0, len, <<>>)
             IN  IF r.tag = "Ok"
                 THEN Out("array_from_hex", n, "Ok", r.bytes, 0, 0, 0, 0, r.examined)
                 ELSE Out("array_from_hex", n, "InvalidChar", <<>>, r.invalid, r.pos, 0, 0, r.examined)
        ELSE Out("array_from_hex", n, "InvalidLength", <<>>, 0, 0, 2 * len, 2 * n, 0)

\* <[u8; N] as FromHex>::from_hex: from_no_prefix_hex, then from_byte_iter.
array_from_hex(n, hex) ==
    IF new_odd_len(hex) # 0
    THEN Out("array_from_hex", n, "OddLength", <<>>, 0, 0, new_odd_len(hex), 0, 0)
    ELSE array_from_byte_iter(n, hex)

\* str::starts_with("0x").
starts_with_0x(hex) == Len(hex) >= 2 /\ hex[1] = 48 /\ hex[2] = 120

RECURSIVE trim_start_matches_0x(_)
\* str::trim_start_matches("0x"): every leading repetition of `0x` removed.
trim_start_matches_0x(hex) ==
    IF starts_with_0x(hex) THEN trim_start_matches_0x(SubSeq(hex, 3, Len(hex))) ELSE hex

\* FromHex::from_no_prefix_hex for Vec<u8> (n = 0 stands for the Vec) and
\* for [u8; n].
from_no_prefix_hex(n, hex) == IF n = 0 THEN vec_from_hex(hex) ELSE array_from_hex(n, hex)

\* FromHex::from_maybe_prefixed_hex.
from_maybe_prefixed_hex(n, hex) ==
    IF starts_with_0x(hex) THEN from_no_prefix_hex(n, trim_start_matches_0x(hex))
    ELSE from_no_prefix_hex(n, hex)

\* FromHex::from_prefixed_hex: MissingPrefix, or what from_no_prefix_hex
\* gives, its error held in PrefixedError::ParseHex.
from_prefixed_hex(n, hex) ==
    IF ~starts_with_0x(hex)
    THEN Out(IF n = 0 THEN "vec_from_hex" ELSE "array_from_hex", n, "MissingPrefix",
             <<>>, 0, 0, 0, 0, 0)
    ELSE from_no_prefix_hex(n, trim_start_matches_0x(hex))

\* The characters prefixed texts are made of: 0, x and b.
PrefixChars == { <<48>>, <<120>>, <<98>> }

\* The types FromHex is called on: Vec<u8> (0) and the arrays.
FromHexTargets == {0} \cup (FromHexLens \cap 0..MaxN)

\* A text handed to the prefix entry points.
PrefixInit ==
    /\ text \in UNION { StrsOfLen(PrefixChars, n) : n \in 0..MaxStrLen }
    /\ srcBytes = <<>>
    /\ srcCase = "Lower"
    /\ encoded = FALSE
    /\ out = NoOut

\* T::from_no_prefix_hex(text).
PrefixNone(n) ==
    /\ out' = [from_no_prefix_hex(n, text) EXCEPT !.op = "from_no_prefix_hex"]
    /\ UNCHANGED <<text, srcBytes, srcCase, encoded, pairVars, iterVars, bufVars, fmtVars, runVars, hwVars, errVars, encVars>>

\* T::from_maybe_prefixed_hex(text).
PrefixMaybe(n) ==
    /\ out' = [from_maybe_prefixed_hex(n, text) EXCEPT !.op = "from_maybe_prefixed_hex"]
    /\ UNCHANGED <<text, srcBytes, srcCase, encoded, pairVars, iterVars, bufVars, fmtVars, runVars, hwVars, errVars, encVars>>

\* T::from_prefixed_hex(text).
PrefixRequired(n) ==
    /\ out' = [from_prefixed_hex(n, text) EXCEPT !.op = "from_prefixed_hex"]
    /\ UNCHANGED <<text, srcBytes, srcCase, encoded, pairVars, iterVars, bufVars, fmtVars, runVars, hwVars, errVars, encVars>>

NextPrefix ==
    \/ \E n \in FromHexTargets : PrefixNone(n)
    \/ \E n \in FromHexTargets : PrefixMaybe(n)
    \/ \E n \in FromHexTargets : PrefixRequired(n)

\* The characters texts are made of: 4, b, D (hex digits), z and the
\* two-byte e-acute.
CodecChars == { <<52>>, <<98>>, <<68>>, <<122>>, <<195, 169>> }

Texts == UNION { StrsOfLen(CodecChars, n) : n \in 0..MaxStrLen }

\* The bytes longer sequences are made of.
SampleBytes == { 0, 10, 127, 128, 171, 255 }

\* Every single byte, and the sequences of SampleBytes up to MaxBytes bytes.
ByteSeqs == SeqsOfLen(Byte, 1) \cup UNION { SeqsOfLen(SampleBytes, n) : n \in 0..MaxBytes }

CodecInit ==
    /\ text \in Texts
    /\ srcBytes = <<>>
    /\ srcCase = "Lower"
    /\ encoded = FALSE
    /\ out = NoOut

CodecIdle ==
    /\ text = <<>>
    /\ srcBytes = <<>>
    /\ srcCase = "Lower"
    /\ encoded = FALSE
    /\ out = NoOut

\* bytes.to_hex_string(case): the text decoded from now on.
CodecEncode(bytes, case) ==
    /\ text = <<>>
    /\ ~encoded
    /\ srcBytes' = bytes
    /\ srcCase' = case
    /\ text' = to_hex_string(bytes, case)
    /\ encoded' = TRUE
    /\ out' = NoOut
    /\ UNCHANGED <<pairVars, iterVars, bufVars, fmtVars, runVars, hwVars, errVars, encVars>>

\* format!("{}", bytes.as_hex()) and format!("{:?}", bytes.as_hex()): the
\* text decoded from now on.
CodecDisplay(bytes) ==
    /\ text = <<>>
    /\ ~encoded
    /\ srcBytes' = bytes
    /\ srcCase' = "Lower"
    /\ text' = Written(display_fmt(bytes, DefaultOpts).writes)
    /\ encoded' = TRUE
    /\ out' = NoOut
    /\ UNCHANGED <<pairVars, iterVars, bufVars, fmtVars, runVars, hwVars, errVars, encVars>>

\* HexToBytesIter::new(text): the iterator (Ok) or the odd length.
iter_new(hex) ==
    IF new_odd_len(hex) # 0
    THEN Out("iter_new", 0, "OddLength", <<>>, 0, 0, new_odd_len(hex), 0, 0)
    ELSE Out("iter_new", 0, "Ok", <<>>, 0, 0, 0, 0, 0)

CodecNew ==
    /\ out' = iter_new(text)
    /\ UNCHANGED <<text, srcBytes, srcCase, encoded, pairVars, iterVars, bufVars, fmtVars, runVars, hwVars, errVars, encVars>>

CodecDecodeToVec ==
    /\ out' = decode_to_vec(text)
    /\ UNCHANGED <<text, srcBytes, srcCase, encoded, pairVars, iterVars, bufVars, fmtVars, runVars, hwVars, errVars, encVars>>

CodecDecodeToArray(n) ==
    /\ out' = decode_to_array(n, text)
    /\ UNCHANGED <<text, srcBytes, srcCase, encoded, pairVars, iterVars, bufVars, fmtVars, runVars, hwVars, errVars, encVars>>

CodecVecFromHex ==
    /\ out' = vec_from_hex(text)
    /\ UNCHANGED <<text, srcBytes, srcCase, encoded, pairVars, iterVars, bufVars, fmtVars, runVars, hwVars, errVars, encVars>>

CodecArrayFromHex(n) ==
    /\ out' = array_from_hex(n, text)
    /\ UNCHANGED <<text, srcBytes, srcCase, encoded, pairVars, iterVars, bufVars, fmtVars, runVars, hwVars, errVars, encVars>>

NextCodec ==
    \/ (text = <<>> /\ ~encoded) /\ \E b \in ByteSeqs, c \in Case : CodecEncode(b, c)
    \/ (text = <<>> /\ ~encoded) /\ \E b \in ByteSeqs : CodecDisplay(b)
    \/ CodecNew
    \/ CodecDecodeToVec
    \/ \E n \in 0..MaxN : CodecDecodeToArray(n)
    \/ CodecVecFromHex
    \/ \E n \in FromHexLens \cap 0..MaxN : CodecArrayFromHex(n)

InitCodec == CodecInit /\ PairIdle /\ IterIdle /\ BufIdle /\ FmtIdle /\ RunIdle /\ HwIdle /\ ErrIdle /\ EncIdle

SpecCodec == InitCodec /\ [][NextCodec]_vars

InitPrefix == PrefixInit /\ PairIdle /\ IterIdle /\ BufIdle /\ FmtIdle /\ RunIdle /\ HwIdle /\ ErrIdle /\ EncIdle

SpecPrefix == InitPrefix /\ [][NextPrefix]_vars

InitIter == IterInit /\ PairIdle /\ CodecIdle /\ BufIdle /\ FmtIdle /\ RunIdle /\ HwIdle /\ ErrIdle /\ EncIdle

SpecIter == InitIter /\ [][NextIter]_vars

InitIterCalls == IterInit /\ PairIdle /\ CodecIdle /\ BufIdle /\ FmtIdle /\ RunIdle /\ HwIdle /\ ErrIdle /\ EncIdle

SpecIterCalls == InitIterCalls /\ [][NextIterCalls]_vars

NextPair == PairDecode

InitBuf == BufInit /\ PairIdle /\ IterIdle /\ CodecIdle /\ FmtIdle /\ RunIdle /\ HwIdle /\ ErrIdle /\ EncIdle

SpecBuf == InitBuf /\ [][NextBuf]_vars

InitPair == PairInit /\ IterIdle /\ CodecIdle /\ BufIdle /\ FmtIdle /\ RunIdle /\ HwIdle /\ ErrIdle /\ EncIdle

SpecPair == InitPair /\ [][NextPair]_vars

InitFmt == FmtInit /\ PairIdle /\ IterIdle /\ CodecIdle /\ BufIdle /\ RunIdle /\ HwIdle /\ ErrIdle /\ EncIdle

SpecFmt == InitFmt /\ [][NextFmt]_vars

InitHw ==
    HwInit /\ PairIdle /\ IterIdle /\ CodecIdle /\ BufIdle /\ FmtIdle /\ RunIdle /\ ErrIdle /\ EncIdle

SpecHw == InitHw /\ [][NextHw]_vars

InitErr ==
    ErrInit /\ PairIdle /\ IterIdle /\ CodecIdle /\ BufIdle /\ FmtIdle /\ RunIdle /\ HwIdle /\ EncIdle

SpecErr == InitErr /\ [][NextErr]_vars

InitEnc ==
    EncInit /\ PairIdle /\ IterIdle /\ CodecIdle /\ BufIdle /\ FmtIdle /\ RunIdle /\ HwIdle /\ ErrIdle

SpecEnc == InitEnc /\ [][NextEnc]_vars

InitRun == RunInit /\ PairIdle /\ CodecIdle /\ BufIdle /\ HwIdle /\ ErrIdle /\ EncIdle

\* A call that was started goes on: the loops run in one thread.
SpecRun == InitRun /\ [][NextRun]_vars /\ WF_vars(NextRun)

\* ------------------------------------------------------------------ claims

\* C1: decoding the text that encoding b produced, in either case, gives b
\* back: through decode_to_vec and Vec::from_hex, and through
\* decode_to_array::<N> and <[u8; N]>::from_hex with N = len(b).
C1_RoundTrip ==
    (encoded /\ out.op # "none" /\ out.op # "iter_new") =>
        \/ out.op \in {"decode_to_array", "array_from_hex"} /\ out.N # Len(srcBytes)
        \/ out.tag = "Ok" /\ out.bytes = srcBytes

\* C1 happens: two bytes with letter digits, encoded in upper case, came
\* back from the fixed-size <[u8; 2]>::from_hex.
C1_Witness ==
    /\ encoded
    /\ srcCase = "Upper"
    /\ srcBytes = <<171, 10>>
    /\ out.op = "array_from_hex"
    /\ out.N = 2
    /\ out.tag = "Ok"

\* Whether the text holds a byte that is no hex digit.
TextHasInvalid == \E p \in 1..Len(text) : ~IsHex(text[p])

\* C4: for a text of odd length, whatever its characters, HexToBytesIter::new,
\* decode_to_vec and Vec::from_hex report OddLength carrying the length, and
\* no pair is decoded.
C4_OddLengthPriority ==
    (Len(text) % 2 = 1 /\ out.op \in {"iter_new", "decode_to_vec", "vec_from_hex"}) =>
        /\ out.tag = "OddLength"
        /\ out.len = Len(text)
        /\ out.examined = 0

\* C4 happens: Vec::from_hex was given an odd-length text whose first
\* character is no hex digit.
C4_Witness ==
    /\ Len(text) = 3
    /\ ~IsHex(text[1])
    /\ out.op = "vec_from_hex"
    /\ out.tag = "OddLength"

InvalidPositions == { p \in 0..(Len(s) - 1) : ~IsHex(s[p + 1]) }

\* The 0-based position in s of the first invalid byte of pair k.
TruePos(k) == IF ~IsHex(s[2 * k + 1]) THEN 2 * k ELSE 2 * k + 1

\* The ends the ChunksExact slice was shortened from.
FrontUsed == front > 0
BackUsed == back < original_len

OneDirection == ~(FrontUsed /\ BackUsed)

\* C2: when s holds exactly one byte that is no hex digit, at position i,
\* and the iterator was consumed from one end only (next and nth, or
\* next_back and nth_back), the call that decodes the pair holding i yields
\* an InvalidCharError with pos = i and invalid = s[i].
C2_PositionOneDirection ==
    \A i \in InvalidPositions :
        (InvalidPositions = {i} /\ OneDirection /\ lastPair = i \div 2)
            => item = ErrItem(s[i + 1], i)

\* C2 happens: after a skip from the back, nth_back or next_back decodes the
\* pair holding the only invalid byte, which is a low character.
C2_Witness ==
    /\ Cardinality(InvalidPositions) = 1
    /\ ~FrontUsed
    /\ back < original_len - 1
    /\ lastPair >= 0
    /\ (2 * lastPair + 1) \in InvalidPositions
    /\ item.tag = "Err"

\* C3 as stated: every InvalidCharError an iterator call yields carries the
\* absolute position in s of the offending byte, however the calls from the
\* two ends were interleaved.
C3_PositionInterleaved ==
    (item.tag = "Err" /\ lastPair >= 0) =>
        (item.pos = TruePos(lastPair) /\ item.invalid = s[item.pos + 1])

\* C7: hex_chars_to_byte(hi, lo) is 16 * v(hi) + v(lo) when both bytes are
\* hex digits ('0'-'9', 'a'-'f', 'A'-'F'); else it reports hi with
\* is_high = TRUE when hi is invalid, and lo with is_high = FALSE only
\* when hi is valid and lo is not.  Every other byte is invalid.
HexValue(c) ==
    CASE c \in 48..57 -> c - 48
      [] c \in 97..102 -> c - 97 + 10
      [] c \in 65..70 -> c - 65 + 10
      [] OTHER -> NoDigit

ToLower(c) == IF c \in 65..90 THEN c + 32 ELSE c

C7_PairRule ==
    pairDone =>
        /\ (HexValue(hi) # NoDigit /\ HexValue(lo) # NoDigit)
              => pairRes = PairOk(16 * HexValue(hi) + HexValue(lo))
        /\ HexValue(hi) = NoDigit => pairRes = PairErr(hi, TRUE)
        /\ (HexValue(hi) # NoDigit /\ HexValue(lo) = NoDigit)
              => pairRes = PairErr(lo, FALSE)
        /\ pairRes = hex_chars_to_byte(ToLower(hi), ToLower(lo))
              \/ ~pairRes.ok

\* C7 happens: a pair whose two bytes are both invalid was decoded.
C7_Witness ==
    /\ pairDone
    /\ HexValue(hi) = NoDigit
    /\ HexValue(lo) = NoDigit
    /\ hi # lo

\* C8 as stated: a call that decoded a pair holding a byte that is no hex
\* digit hands its caller an error, never a success.
C8_ErrorsPropagate ==
    sawInvalid => (item.tag = "Err" \/ ret.tag = "Err")

\* C9: while no call has failed, the buffered text is at most CAP bytes
\* long; a put_byte or put_bytes that would exceed CAP fails, and
\* put_bytes_min and put_filler never fail and write only what fits.
C9_Capacity ==
    /\ ~panicked => Len(buf) <= cap
    /\ (lastOp.name \in {"put_byte", "put_bytes"} /\ lastOp.before + lastOp.need > cap)
          => panicked
    /\ lastOp.name \in {"put_bytes_min", "put_filler"}
          => (~panicked /\ Len(buf) <= cap)

\* C9 happens: put_bytes_min was given more bytes than fit, filled the
\* buffer to CAP and returned a remainder.
C9_Witness ==
    /\ lastOp.name = "put_bytes_min"
    /\ lastOp.before + lastOp.need > cap
    /\ cap > 0
    /\ Len(buf) = cap
    /\ rv > 0
    /\ ~panicked

\* C10 as stated: in every reachable state of a BufEncoder<CAP> (after any
\* sequence of new, put_byte, put_bytes, put_bytes_min, put_filler and
\* clear) the length of the buffered text is even.
C10_Original == Len(buf) % 2 = 0

\* C10 amended: in every reachable state the length of the buffered text
\* less the bytes put_filler appended since the last clear is even; so
\* the length is even as long as put_filler appended an even number of bytes.
C10_EvenLength == (Len(buf) - fillerLen) % 2 = 0

\* C10 happens: put_byte appended two characters behind an odd number of
\* filler bytes.
C10_Witness ==
    /\ lastOp.name = "put_byte"
    /\ ~panicked
    /\ fillerLen % 2 = 1
    /\ Len(buf) = fillerLen + 2

\* The hex digit of the value v (0..15) in the given case.
HexDigit(v, case) ==
    IF v < 10 THEN 48 + v
    ELSE IF case = "Lower" THEN 97 + (v - 10) ELSE 65 + (v - 10)

RECURSIVE HexOf(_, _)
\* The hex encoding of a byte sequence: two digits a byte, high nibble first.
HexOf(bytes, case) ==
    IF bytes = <<>> THEN <<>>
    ELSE << HexDigit(Head(bytes) \div 16, case), HexDigit(Head(bytes) % 16, case) >>
         \o HexOf(Tail(bytes), case)

\* C11: a put_bytes_min(bytes) step never fails, appends the encoding of the
\* first k = min(space_remaining(), len(bytes)) bytes, in order, and returns
\* bytes[k..]; the returned slice is empty exactly when every byte was written.
C11_PutBytesMin ==
    [][lastOp'.name = "put_bytes_min" =>
        LET bytes == lastArg'.bytes
            k == Min(space_remaining(buf, cap), Len(bytes))
        IN  /\ ~panicked'
            /\ buf' = buf \o HexOf(SubSeq(bytes, 1, k), bcase)
            /\ lastArg'.rest = SubSeq(bytes, k + 1, Len(bytes))
            /\ (lastArg'.rest = <<>>) <=> (Len(buf') = Len(buf) + 2 * Len(bytes))]_vars

\* C11 happens: put_bytes_min was given two bytes, wrote one behind what
\* the buffer held and returned the other.
C11_Witness ==
    /\ lastOp.name = "put_bytes_min"
    /\ Len(lastArg.bytes) = 2
    /\ lastArg.rest = << lastArg.bytes[2] >>
    /\ lastOp.before > 0
    /\ Len(buf) = lastOp.before + 2

\* C12: a put_bytes step whose iterator has a known upper size hint greater
\* than space_remaining() fails with the buffer as it was before the call;
\* a put_bytes step whose bytes fit appends the encoding of every byte, in
\* order.
C12_PutBytesFailFast ==
    [][lastOp'.name = "put_bytes" =>
        LET bytes == lastArg'.bytes
        IN  /\ (lastArg'.hinted /\ Len(bytes) > space_remaining(buf, cap))
                  => (panicked' /\ buf' = buf)
            /\ Len(bytes) <= space_remaining(buf, cap)
                  => (~panicked' /\ buf' = buf \o HexOf(bytes, bcase))]_vars

\* C12 happens: put_bytes was given two bytes with a known size hint when
\* the buffer had room for one, and failed.
C12_Witness ==
    /\ lastOp.name = "put_bytes"
    /\ lastArg.hinted
    /\ Len(lastArg.bytes) = 2
    /\ (cap - lastOp.before) \div 2 = 1
    /\ panicked

\* C13 as stated: a put_byte(b) step from a state with space_remaining() >= 1
\* appends the two characters of b (high nibble first, in the encoder's
\* case) and lowers space_remaining() by one, and else fails with the
\* buffer unchanged; after a clear step the text is empty, space_remaining()
\* is CAP / 2 and is_full() is false.
C13_Original ==
    [][/\ lastOp'.name = "put_byte" =>
             IF space_remaining(buf, cap) >= 1
             THEN /\ ~panicked'
                  /\ buf' = buf \o HexOf(lastArg'.bytes, bcase)
                  /\ space_remaining(buf', cap') = space_remaining(buf, cap) - 1
             ELSE panicked' /\ buf' = buf
       /\ lastOp'.name = "clear" =>
             /\ buf' = <<>>
             /\ space_remaining(buf', cap') = cap \div 2
             /\ ~is_full(buf', cap')]_vars

\* C13 amended: as stated for put_byte; after a clear step the text is
\* empty, space_remaining() is CAP / 2, and is_full() is false when CAP > 0
\* and true when CAP = 0.
C13_PutByte ==
    [][/\ lastOp'.name = "put_byte" =>
             IF space_remaining(buf, cap) >= 1
             THEN /\ ~panicked'
                  /\ buf' = buf \o HexOf(lastArg'.bytes, bcase)
                  /\ space_remaining(buf', cap') = space_remaining(buf, cap) - 1
             ELSE panicked' /\ buf' = buf
       /\ lastOp'.name = "clear" =>
             /\ buf' = <<>>
             /\ space_remaining(buf', cap') = cap \div 2
             /\ is_full(buf', cap') <=> (cap = 0)]_vars

\* C13 happens: put_byte appended the upper-case digits of 0xff behind what
\* the buffer held.
C13_Witness ==
    /\ lastOp.name = "put_byte"
    /\ lastArg.bytes = <<255>>
    /\ bcase = "Upper"
    /\ lastOp.before > 0
    /\ ~panicked
    /\ Len(buf) = lastOp.before + 2

\* The number of bytes of the UTF-8 encoding of the code point c.
Utf8Len(c) == IF c < 128 THEN 1 ELSE IF c < 2048 THEN 2 ELSE IF c < 65536 THEN 3 ELSE 4

\* C14: a put_filler(c, max_count) step never fails, returns
\* r = min(max_count, floor(remaining capacity / utf8_len(c))) and appends
\* exactly r whole copies of c.
C14_PutFiller ==
    [][lastOp'.name = "put_filler" =>
        LET c == lastArg'.c
            r == Min(lastArg'.max_count, (cap - Len(buf)) \div Utf8Len(c))
        IN  /\ ~panicked'
            /\ rv' = r
            /\ Len(encode_utf8(c)) = Utf8Len(c)
            /\ Len(buf') = Len(buf) + r * Utf8Len(c)
            /\ SubSeq(buf', 1, Len(buf)) = buf
            /\ \A i \in 0..(r - 1) :
                  SubSeq(buf', Len(buf) + i * Utf8Len(c) + 1,
                         Len(buf) + (i + 1) * Utf8Len(c)) = encode_utf8(c)]_vars

\* C14 happens: put_filler was asked for two copies of a three-byte
\* character and wrote the one that fit, behind what the buffer held.
C14_Witness ==
    /\ lastOp.name = "put_filler"
    /\ lastArg.c = 8364
    /\ lastArg.max_count = 2
    /\ rv = 1
    /\ lastOp.before > 0
    /\ Len(buf) = lastOp.before + 3

RECURSIVE PartOf(_, _)
\* What the writes ws put out for one part of the output, in order.
PartOf(ws, part) ==
    IF ws = <<>> THEN <<>>
    ELSE (IF Head(ws).part = part THEN Head(ws).text ELSE <<>>) \o PartOf(Tail(ws), part)

Max(a, b) == IF a > b THEN a ELSE b

\* A formatting call was made.
FmtDone == fcall.path # "none"

\* The fill characters written on the left and on the right, and the
\* characters written that are no padding.
LeftFills == Len(PartOf(fout.writes, "left")) \div Utf8Len(fcall.opts.fill)
RightFills == Len(PartOf(fout.writes, "right")) \div Utf8Len(fcall.opts.fill)
Rendered == Len(PartOf(fout.writes, "prefix")) + Len(PartOf(fout.writes, "body"))

\* The length of the body under the precision: min(P, 2n).
BodyLen ==
    IF fcall.opts.precision = NoOpt THEN 2 * Len(fcall.bytes)
    ELSE Min(fcall.opts.precision, 2 * Len(fcall.bytes))

C16_Precision ==
    FmtDone =>
        PartOf(fout.writes, "body") = SubSeq(HexOf(fcall.bytes, fcall.case), 1, BodyLen)

\* The place of a part in the output.
PartRank(part) ==
    CASE part = "left" -> 0 [] part = "prefix" -> 1 [] part = "body" -> 2 [] OTHER -> 3

\* C17: the padding d is written (0, d) for Left and for no alignment,
\* (d, 0) for Right and (floor(d / 2), ceil(d / 2)) for Center; the output
\* is the left padding, `0x` when asked for, the body and the right padding,
\* in this order.
C17_AlignmentSplit ==
    FmtDone =>
        LET d == LeftFills + RightFills
            a == fcall.opts.align
            ws == fout.writes
            fill == encode_utf8(fcall.opts.fill)
        IN  /\ \A i, j \in 1..Len(ws) : i < j => PartRank(ws[i].part) <= PartRank(ws[j].part)
            /\ PartOf(ws, "left") = Repeat(fill, LeftFills)
            /\ PartOf(ws, "right") = Repeat(fill, RightFills)
            /\ PartOf(ws, "prefix") = (IF fcall.opts.alternate THEN <<48, 120>> ELSE <<>>)
            /\ d > 0 =>
                  << LeftFills, RightFills >> =
                      (IF a = "Right" THEN << d, 0 >>
                       ELSE IF a = "Center" THEN << d \div 2, d - (d \div 2) >>
                       ELSE << 0, d >>)

\* C17 happens: a prefixed text was centered with an odd padding of three.
C17_Witness ==
    /\ FmtDone
    /\ fcall.opts.align = "Center"
    /\ fcall.opts.alternate
    /\ LeftFills = 1
    /\ RightFills = 2

\* The cursors of the iterator and the item of its last call.
IterAt(f, b, it) == [front |-> f, back |-> b, item |-> it]

\* One next() from the state st.
StepNext(st) ==
    IF st.front < st.back
    THEN IterAt(st.front + 1, st.back,
                front_item(s, original_len, st.front, st.back - (st.front + 1)))
    ELSE IterAt(st.front, st.back, NoneItem)

\* One next_back() from the state st.
StepNextBack(st) ==
    IF st.front < st.back
    THEN IterAt(st.front, st.back - 1,
                back_item(s, st.back - 1, (st.back - 1) - st.front))
    ELSE IterAt(st.front, st.back, NoneItem)

RECURSIVE NextTimes(_, _)
\* k calls of next() from st, the last item kept.
NextTimes(st, k) == IF k = 0 THEN st ELSE NextTimes(StepNext(st), k - 1)

RECURSIVE NextBackTimes(_, _)
\* k calls of next_back() from st, the last item kept.
NextBackTimes(st, k) == IF k = 0 THEN st ELSE NextBackTimes(StepNextBack(st), k - 1)

\* The pairs the calls so far consumed or skipped: those before the front
\* cursor and those from the back cursor on.
PairsTaken == Cardinality((0..(front - 1)) \cup (back..(original_len - 1)))

\* C18, in every state: len() is k less the pairs consumed or skipped so
\* far, k for a new iterator, and size_hint() is (len, Some(len)).
C18_LenInv ==
    /\ original_len = Len(s) \div 2
    /\ 0 <= front /\ front <= back /\ back <= original_len
    /\ iter_len(front, back) = original_len - PairsTaken
    /\ (front = 0 /\ back = original_len) => iter_len(front, back) = Len(s) \div 2
    /\ size_hint(front, back) = << iter_len(front, back), iter_len(front, back) >>

\* C18, in every call: next and next_back take exactly one pair when one is
\* left, nth(n) and nth_back(n) take n + 1 pairs or all that are left, from
\* their own end only, and a call on an iterator with len() = 0 returns
\* None and leaves len() = 0: no step of a call does otherwise.
C18_LenStep ==
    LET l == iter_len(front, back)
        Front(k) == back' = back /\ front' = front + k
        Back(k) == front' = front /\ back' = back - k
        One == IF l > 0 THEN 1 ELSE 0
    IN  /\ (Front(One) /\ (item'.tag = "None" <=> l = 0)) \/ ~IterNext
        /\ (Back(One) /\ (item'.tag = "None" <=> l = 0)) \/ ~IterNextBack
        /\ \A n \in 0..MaxSkip :
              /\ (Front(Min(n + 1, l)) /\ (item'.tag = "None" <=> n >= l)) \/ ~IterNth(n)
              /\ (Back(Min(n + 1, l)) /\ (item'.tag = "None" <=> n >= l)) \/ ~IterNthBack(n)

\* C18: for a HexToBytesIter over 2k characters, len() is k at first and k
\* less the pairs consumed or skipped after any next, next_back, nth and
\* nth_back calls, size_hint() is (len, Some(len)), each next and next_back
\* consumes exactly one pair, and with len() = 0 every call returns None.
C18_ExactSize == [][C18_LenInv /\ C18_LenInv' /\ C18_LenStep]_vars

\* C18 happens: calls from both ends left one pair of three, and the last
\* call yielded an item.
C18_Witness ==
    /\ original_len = 3
    /\ front = 1
    /\ back = 2
    /\ item.tag # "None"
    /\ ~moved

\* C19: nth(n) returns the item, and leaves the iterator in the state, of
\* n + 1 calls of next() of which the last result is kept; nth_back(n)
\* likewise of n + 1 calls of next_back().
C19_NthEquivalence ==
    [][ LET before == IterAt(front, back, item)
            after == IterAt(front', back', item')
        IN  /\ IterNext => after = StepNext(before)
            /\ IterNextBack => after = StepNextBack(before)
            /\ \A n \in 0..MaxSkip :
                  /\ IterNth(n) => after = NextTimes(before, n + 1)
                  /\ IterNthBack(n) => after = NextBackTimes(before, n + 1) ]_vars

\* C19 happens: after a call from the back, the iterator stands where
\* nth(1) leaves it, two pairs on from the front, with the error of the
\* pair nth(1) stops at.
C19_Witness ==
    /\ ~moved
    /\ back < original_len
    /\ front >= 2
    /\ lastPair = front - 1
    /\ item.tag = "Err"
    /\ IterAt(front, back, item) = NextTimes(IterAt(front - 2, back, NoneItem), 2)

\* The decoding of pair j (from 0) of s, both characters being hex digits.
PairByte(j) == 16 * HexValue(s[2 * j + 1]) + HexValue(s[2 * j + 2])

\* The position of the first byte of s that is no hex digit.
FirstInvalid == CHOOSE i \in InvalidPositions : \A j \in InvalidPositions : i <= j

\* What C20 says of a drain of the whole of s that met no length mismatch:
\* all the bytes, or the error of the first invalid character with the
\* `held` bytes in the caller's hands, nothing after that character's pair
\* being decoded.
DrainOutcome(r, held) ==
    IF InvalidPositions = {}
    THEN /\ r.tag = "Ok"
         /\ r.bytes = [j \in 1..(Len(s) \div 2) |-> PairByte(j - 1)]
    ELSE /\ r.tag = "Err"
         /\ r.pos = FirstInvalid
         /\ r.invalid = s[FirstInvalid + 1]
         /\ r.n = FirstInvalid \div 2 + 1
         /\ r.bytes = held

\* C20: drain_to_vec and drain_to_slice, over the whole of an even-length
\* s and with a destination of len() bytes, yield the len(s) / 2 bytes, byte
\* j decoded from the characters 2j and 2j + 1, or the InvalidCharError of
\* the first invalid character, decoding nothing after it; on failure
\* drain_to_vec returns no Vec and drain_to_slice wrote only the bytes
\* before the error; drain_to_slice panics before it writes when the
\* destination's length is not len().
C20_BulkDrain ==
    [][ (front = 0 /\ back = original_len) =>
           /\ IterDrainToVec => DrainOutcome(ret', <<>>)
           /\ \A n \in 0..MaxPairs :
                 IterDrainToSlice(n) =>
                    IF n # Len(s) \div 2
                    THEN ret'.tag = "Panic" /\ ret'.bytes = <<>> /\ ret'.n = 0
                    ELSE DrainOutcome(ret', [j \in 1..(FirstInvalid \div 2) |-> PairByte(j - 1)])
      ]_vars

\* C20 happens: a drain of a whole str of three pairs stopped at an invalid
\* character of the second pair, a later one being invalid too.
C20_Witness ==
    /\ moved
    /\ front = 0
    /\ back = original_len
    /\ original_len = 3
    /\ ret.tag = "Err"
    /\ ret.n = 2
    /\ Cardinality(InvalidPositions) >= 2

\* What an entry point returned, whichever entry point it was.
Outcome(o) == [o EXCEPT !.op = "any"]

\* C21 as stated: for a text that starts with `0x`, from_maybe_prefixed_hex
\* and from_prefixed_hex give what from_no_prefix_hex gives for the text
\* less exactly its first two characters; for a text without the prefix,
\* from_maybe_prefixed_hex gives what from_no_prefix_hex gives for the text
\* and from_prefixed_hex gives MissingPrefix, no pair decoded.
C21_PrefixHandling ==
    out.op \in {"from_maybe_prefixed_hex", "from_prefixed_hex"} =>
        IF Len(text) >= 2 /\ SubSeq(text, 1, 2) = <<48, 120>>
        THEN Outcome(out) = Outcome(from_no_prefix_hex(out.N, SubSeq(text, 3, Len(text))))
        ELSE IF out.op = "from_maybe_prefixed_hex"
        THEN Outcome(out) = Outcome(from_no_prefix_hex(out.N, text))
        ELSE out.tag = "MissingPrefix" /\ out.examined = 0

\* C22 as stated: for the same bytes, case, width, fill, alignment,
\* precision and `#` flag, fmt_hex_exact! writes exactly the text that
\* formatting bytes.as_hex() writes.
C22_RenderersAgree ==
    /\ fcall.path = "as_hex" =>
          Written(fout.writes) = Written(fmt_hex_exact_fn(fcall.bytes, fcall.opts, fcall.case).writes)
    /\ fcall.path = "fmt_hex_exact" =>
          Written(fout.writes) = Written(internal_display(fcall.bytes, fcall.opts, fcall.case).writes)

\* The characters of the two hex alphabets.
Alphabet(case) ==
    IF case = "Lower" THEN 48..57 \cup 97..102 ELSE 48..57 \cup 65..70

\* char::to_ascii_uppercase.
ToUpper(c) == IF c \in 97..122 THEN c - 32 ELSE c

\* C23: the Lower encoding of b holds only characters of 0123456789abcdef,
\* the Upper encoding only characters of 0123456789ABCDEF, the Lower
\* encoding upper-cased character by character is the Upper encoding, and
\* Display and Debug of the hex view write the Lower encoding.
C23_Case ==
    [][ (text = <<>> /\ ~encoded /\ encoded') =>
           LET b == srcBytes'
               lower == to_hex_string(b, "Lower")
               upper == to_hex_string(b, "Upper")
           IN  /\ \A i \in 1..Len(lower) : lower[i] \in Alphabet("Lower")
               /\ \A i \in 1..Len(upper) : upper[i] \in Alphabet("Upper")
               /\ [i \in 1..Len(lower) |-> ToUpper(lower[i])] = upper
               /\ CodecDisplay(b) => text' = lower
               /\ CodecEncode(b, "Lower") => text' = lower
               /\ CodecEncode(b, "Upper") => text' = upper ]_vars

\* C23 happens: bytes with letter digits were encoded in upper case.
C23_Witness ==
    /\ encoded
    /\ srcCase = "Upper"
    /\ srcBytes = <<171, 255>>
    /\ text = <<65, 66, 70, 70>>


\* The loop iterations the input of the call allows: a pair decoded by each
\* iteration of a drain; a character of padding at least, or a chunk of
\* ChunkLen bytes, written by each iteration of a formatting call.
RunBound ==
    IF pc = "start" \/ fcall.path = "run"
    THEN (IF fcall.opts.width = NoOpt THEN 0 ELSE fcall.opts.width)
            + Len(fcall.bytes) \div ChunkLen
    ELSE original_len

\* C24: every operation finishes after a number of steps bounded by its
\* input: formatting bytes under any width, fill and precision completes
\* (the loops of the left and of the right padding and the loop over the
\* chunks of 512 bytes end), and the drain of a HexToBytesIter over 2k
\* characters completes after at most k decode steps.
C24_Termination == [](steps <= RunBound) /\ <>(pc = "done")

\* C24 happens: a call formatting more than 1024 bytes under a width above
\* 2048 returned after eight or more iterations of its loops.
C24_Witness ==
    /\ pc = "done"
    /\ fcall.path = "run"
    /\ Len(fcall.bytes) > 2 * ChunkLen
    /\ fcall.opts.width # NoOpt
    /\ fcall.opts.width > 2 * DisplayCap
    /\ steps >= 8
    /\ ~fired


\* The fill characters write_pad_left and write_pad_right are asked for:
\* (left, right) of the width less string_len.
PadAmounts ==
    LET fo == fcall.opts
        sl == string_len(fo, Len(fcall.bytes))
    IN  IF fo.width # NoOpt /\ sl < fo.width
        THEN pad_split(fo.align, fo.width - sl)
        ELSE << 0, 0 >>

\* The writes of one part of the output.
WritesOf(part) == SelectSeq(fout.writes, LAMBDA w : w.part = part)

\* The finished padding of one part is p copies of the fill character:
\* floor(p / chunk) writes of chunk characters, then p mod chunk characters,
\* chunk being what put_filler returned.
PadExact(part, p) ==
    LET F == encode_utf8(fcall.opts.fill)
        chunk == Min(p, DisplayCap \div Len(F))
        ws == WritesOf(part)
    IN  /\ PartOf(fout.writes, part) = Repeat(F, p)
        /\ IF p = 0 THEN ws = <<>>
           ELSE /\ Len(ws) = p \div chunk + 1
                /\ \A i \in 1..(p \div chunk) : ws[i].text = Repeat(F, chunk)
                /\ ws[Len(ws)].text = Repeat(F, p % chunk)

\* C25: for every pad amount p > 0, those above the 1024 bytes of the
\* encoder too, and every fill character of 1 to 4 bytes of UTF-8,
\* write_pad_left and write_pad_right write exactly p copies of the fill
\* character: floor(p / chunk) full chunks and p mod chunk characters, chunk
\* being what put_filler returned, which is 1 at least; no write ends
\* inside a character; the encoder is empty when the body is encoded.
C25_ChunkedPadding ==
    LET F == encode_utf8(fcall.opts.fill)
        p == PadAmounts
    IN  /\ ~fired
        /\ pc \in {"pad_left", "pad_right"} =>
              /\ pad.count = (IF pc = "pad_left" THEN p[1] ELSE p[2])
              /\ pad.count > 0
              /\ pad.chunk_len >= 1
              /\ pad.chunk_len = Min(pad.count, DisplayCap \div Len(F))
              /\ pad.i <= pad.count \div pad.chunk_len
              /\ encoder = Repeat(F, pad.chunk_len)
              /\ Len(WritesOf(IF pc = "pad_left" THEN "left" ELSE "right")) = pad.i
        /\ \A i \in 1..Len(fout.writes) :
              fout.writes[i].part \in {"left", "right"} =>
                 fout.writes[i].text = Repeat(F, Len(fout.writes[i].text) \div Len(F))
        /\ pc \in {"prefix", "body", "inner", "after_body", "pad_right"}
              \/ (pc = "done" /\ fcall.path = "run") =>
                 PadExact("left", p[1])
        /\ pc = "done" /\ fcall.path = "run" => PadExact("right", p[2])
        /\ pc \in {"start", "pad_left"} => WritesOf("right") = <<>>
        /\ pc = "prefix" \/ (pc = "body" /\ chunks = fcall.bytes) => encoder = <<>>

\* C25 happens: a centered text was padded with 1049 four-byte characters
\* on each side, more than the encoder holds, each side in four full
\* chunks of 256 characters and one of 25.
C25_Witness ==
    /\ pc = "done"
    /\ fcall.path = "run"
    /\ fcall.opts.fill = 128512
    /\ fcall.opts.align = "Center"
    /\ PadAmounts = << 1049, 1049 >>
    /\ Len(WritesOf("left")) = 5
    /\ Len(WritesOf("right")) = 5
    /\ Len(PartOf(fout.writes, "left")) = 4 * 1049
    /\ pad = Pad(1049, 256, 4)


\* The bytes formatted one by one with `{:02x}` or `{:02X}`: character i is
\* the high digit (i odd) or the low digit (i even) of byte (i + 1) / 2.
PerByte(bytes, case) ==
    [i \in 1..(2 * Len(bytes)) |->
        IF i % 2 = 1
        THEN HexDigit(bytes[(i + 1) \div 2] \div 16, case)
        ELSE HexDigit(bytes[(i + 1) \div 2] % 16, case)]

\* C26: for a slice of any length n (512, 513, multiples of 512, more than
\* 1024), the body internal_display writes without a precision is the two
\* characters of every byte, in order: 2n characters, those of the bytes
\* formatted one by one with `{:02x}` or `{:02X}`; the encoder of 1024
\* characters is cleared between the chunks, and the capacity assertion of
\* put_bytes never fires.
C26_ChunkedBody ==
    /\ ~fired
    /\ pc = "body" =>
          /\ encoder = <<>>
          /\ Len(fcall.bytes) - Len(chunks) = ChunkLen * Len(WritesOf("body"))
          /\ \A i \in 1..Len(WritesOf("body")) : Len(WritesOf("body")[i].text) = 2 * ChunkLen
    /\ (/\ pc \in {"after_body", "pad_right", "done"}
        /\ fcall.path = "run"
        /\ fcall.opts.precision = NoOpt) =>
          LET n == Len(fcall.bytes)
              body == PartOf(fout.writes, "body")
          IN  /\ Len(body) = 2 * n
              /\ body = PerByte(fcall.bytes, fcall.case)
              /\ Len(WritesOf("body")) = n \div ChunkLen + 1

\* C26 happens: 1025 bytes were written in upper case as two chunks of 1024
\* characters and a remainder of two, between paddings.
C26_Witness ==
    /\ pc = "done"
    /\ fcall.path = "run"
    /\ fcall.case = "Upper"
    /\ fcall.opts.precision = NoOpt
    /\ Len(fcall.bytes) = 2 * ChunkLen + 1
    /\ Len(WritesOf("body")) = 3
    /\ Len(WritesOf("body")[3].text) = 2
    /\ Len(PartOf(fout.writes, "body")) = 2 * DisplayCap + 2
    /\ PartOf(fout.writes, "left") # <<>>
    /\ ~fired


\* The leading bytes of the buf last written whose two characters the
\* inner writer had room for.
HwAccepted ==
    IF hw_cap = NoCap THEN Len(hw_buf)
    ELSE Min(Len(hw_buf), (hw_cap - Len(hw_before)) \div 2)

\* C27: HexWriter::write(buf) returns Ok(n), n being the leading bytes of buf
\* whose two characters the inner writer accepted, up to the first byte it
\* rejected; it returns an error only when n = 0 and buf is not empty, and
\* Ok(0) for an empty buf; the inner writer then holds, after what it held,
\* the hex encoding of buf[0..n] in the writer's case and nothing of a
\* later byte.
C27_HexWriterWrite ==
    hw_calls > 0 =>
        /\ (hw_ret.tag = "Err") = (HwAccepted = 0 /\ hw_buf # <<>>)
        /\ hw_ret.tag \in {"Ok", "Err"}
        /\ hw_ret.tag = "Ok" => hw_ret.n = HwAccepted
        /\ hw_buf = <<>> => hw_ret = HwRet("Ok", 0)
        /\ hw_dest = hw_before \o PerByte(SubSeq(hw_buf, 1, HwAccepted), hw_case)

\* C27 happens: the second write to an ArrayString of five bytes, two of
\* them taken, was given two bytes and returned Ok(1), the inner writer
\* holding the upper-case characters of the first byte after what it held.
C27_Witness ==
    /\ hw_calls = 2
    /\ hw_cap = 5
    /\ hw_case = "Upper"
    /\ hw_before = << 67, 68 >>
    /\ hw_buf = << 171, 205 >>
    /\ hw_ret = HwRet("Ok", 1)
    /\ hw_dest = << 67, 68, 65, 66 >>


\* C28: for every InvalidDigitError e and every next item of the iterator
\* (None, Ok(byte), Err(error)), e.into_invalid_char_error(next) returns an
\* InvalidCharError whose pos is e.pos(): pos when the high digit is the
\* invalid one and pos + 1 when the low digit is, whether the character
\* was recovered or the fallback taken.
C28_PositionKept ==
    char_err # NoCharError => char_err.pos = digit_pos(digit_err)


RECURSIVE StillYields(_, _, _)
\* The characters next() returns from a state on, before it returns None.
StillYields(f, b, l) ==
    LET r == enc_next(enc_bytes, table(enc_case), f, b, l, 0)
    IN  IF r.item = NoChar THEN 0 ELSE 1 + StillYields(r.from, r.to, r.low)

\* Only next() has returned characters so far.
OnlyNext == \A i \in 1..Len(yielded) : yielded[i].end = "front"

\* C29: for a BytesToHexIter over an exact-size iterator of n bytes, after j
\* calls of next(), 0 <= j <= 2n, len() is the number of characters still
\* to be yielded, 2n - j, and agrees with size_hint(), also when the high
\* character of a byte was yielded and its low character is pending.
C29_EncExactSize ==
    OnlyNext =>
        /\ enc_len(enc_from, enc_to) = 2 * Len(enc_bytes) - Len(yielded)
        /\ enc_len(enc_from, enc_to) = StillYields(enc_from, enc_to, low)
        /\ enc_size_hint(enc_from, enc_to, low)
              = << enc_len(enc_from, enc_to), enc_len(enc_from, enc_to) >>

\* The bytes of which both characters are among the first k yielded, one
\* at least of them asked from the given end.
FullBytes(end, k) ==
    Cardinality({ b \in 1..Len(enc_bytes) :
        /\ Cardinality({ m \in 1..k : yielded[m].of = b }) = 2
        /\ \E m \in 1..k : yielded[m].of = b /\ yielded[m].end = end })

\* C30: for a BytesToHexIter over n bytes and every interleaving of next()
\* and next_back() until both return None, 2n characters are yielded, each
\* character next() returns is of the earliest byte not fully yielded from
\* the front, each character next_back() returns is of the latest byte not
\* fully yielded from the back, the high character of a byte before its
\* low character: no byte has its characters split between the two ends.
C30_EncDoubleEnded ==
    /\ (enc_from = enc_to /\ low = NoChar) => Len(yielded) = 2 * Len(enc_bytes)
    /\ \A i \in 1..Len(yielded) :
          LET y == yielded[i]
              before == { k \in 1..(i - 1) : yielded[k].of = y.of }
          IN  /\ \A k \in before : yielded[k].end = y.end
              /\ Cardinality(before) <= 1
              /\ y.c = byte_to_chars(table(enc_case), enc_bytes[y.of])[Cardinality(before) + 1]
              /\ y.end = "front" => y.of = 1 + FullBytes("front", i - 1)
              /\ y.end = "back" => y.of = Len(enc_bytes) - FullBytes("back", i - 1)

====
